---- MODULE Spec2Model ----
(***************************************************************************)
(* Model of the LADA execution engine (src/stt/lada_v2): the Orchestrator   *)
(* run() pipeline, the task StateMachine, the StepGraph node statuses, the  *)
(* RetryPolicy, the RecoveryEngine, the RollbackManager, the execution-mode *)
(* gate of ExecutionContext and the heartbeat Watchdog.                     *)
(***************************************************************************)
EXTENDS Integers, Sequences, FiniteSets, TLC

(***************************************************************************)
(* Bounds of the model (not program constants).                             *)
(***************************************************************************)
\* Longest plan the planner returns.
MaxSteps == 3
\* Longest history the StateMachine is driven to when it is exercised alone.
MaxHist == 4
\* Seconds by which the last heartbeat ages in one Elapse step.
TickS == 16
\* Longest plan in the specifications that run more than the engine alone.
MaxShort == 1
\* run() calls made one after another on one Orchestrator.
MaxRuns == 2
\* Nodes of a graph wired by hand, and dependencies of one of its nodes.
MaxGraph == 3
MaxDeps == 2
\* A StepGraph driven by its caller: nodes of the plan, mark_running calls
\* that count per node, timestamps written.
MaxNodes == 2
MaxMarks == 2
MaxStamp == 4

(***************************************************************************)
(* Program constants.                                                       *)
(***************************************************************************)
max_attempts == 3
FAILURE_DEMOTION_THRESHOLD == 3
HEARTBEAT_TIMEOUT_S == 15

(***************************************************************************)
(* core/state_machine.py : TaskState, ALLOWED, TERMINAL_STATES              *)
(***************************************************************************)
TaskState ==
    {"INIT", "PLANNED", "EXECUTING", "VERIFYING", "RECOVERING",
     "SUCCESS", "FAILED", "CANCELLED"}

ALLOWED(s) ==
    CASE s = "INIT"       -> {"PLANNED", "CANCELLED"}
      [] s = "PLANNED"    -> {"EXECUTING", "FAILED", "CANCELLED"}
      [] s = "EXECUTING"  -> {"VERIFYING", "RECOVERING", "FAILED"}
      [] s = "VERIFYING"  -> {"EXECUTING", "RECOVERING", "SUCCESS", "FAILED"}
      [] s = "RECOVERING" -> {"EXECUTING", "VERIFYING", "PLANNED", "FAILED"}
      [] s = "SUCCESS"    -> {"INIT"}
      [] s = "FAILED"     -> {"INIT"}
      [] s = "CANCELLED"  -> {"INIT"}
      [] OTHER            -> {}

TERMINAL_STATES == {"SUCCESS", "FAILED", "CANCELLED"}

\* Mutant of _validate: the table lookup (guard 1) is dropped, only the
\* terminal-state guard remains.
ValidateTerminalGuardOnly(cur, new_state) ==
    ~(cur \in TERMINAL_STATES /\ new_state # "INIT")

\* StateMachine._validate: TRUE when no IllegalTransitionError is raised.
Validate(cur, new_state) ==
    /\ new_state \in ALLOWED(cur)
    /\ ~(cur \in TERMINAL_STATES /\ new_state # "INIT")

\* The history entry appended by _apply / force_reset.
HistEntry(from, to, action) == [from |-> from, to |-> to, action |-> action]

(***************************************************************************)
(* core/execution_context.py : the execution-mode gate                      *)
(***************************************************************************)
ExecMode == {"live", "dry_run", "safe_mode"}

SAFE_ACTIONS ==
    {"verify_window", "focus_window", "get_text", "wait_for_element",
     "scroll", "set_volume", "set_brightness"}

BLOCKED_IN_SAFE == {"run_command", "close_window", "type_text", "click_button"}

\* Mutant of can_execute: SAFE_MODE only consults the block list, so an action
\* that is on neither list (open_app) is let through.
CanExecuteBlockListOnly(m, action) ==
    CASE m = "live"      -> TRUE
      [] m = "dry_run"   -> FALSE
      [] m = "safe_mode" -> action \notin BLOCKED_IN_SAFE
      [] OTHER           -> TRUE

\* Mutant of can_execute: the SAFE_MODE branch is missing, so SAFE_MODE
\* behaves like LIVE.
CanExecuteNoSafeBranch(m, action) ==
    CASE m = "dry_run" -> FALSE
      [] OTHER         -> TRUE

\* ExecutionContext.can_execute
can_execute(m, action) ==
    CASE m = "live"      -> TRUE
      [] m = "dry_run"   -> FALSE
      [] m = "safe_mode" ->
            IF action \in BLOCKED_IN_SAFE THEN FALSE
            ELSE IF action \notin SAFE_ACTIONS THEN FALSE
            ELSE TRUE
      [] OTHER           -> TRUE

(***************************************************************************)
(* core/step_graph.py : ROLLBACK_MAP, node status helpers                   *)
(***************************************************************************)
NoRollback == "none"

ROLLBACK_MAP(action) ==
    CASE action = "open_app"      -> "close_window"
      [] action = "open_terminal" -> "close_window"
      [] action = "close_window"  -> "open_app"
      [] OTHER                    -> NoRollback

StepStatus == {"PENDING", "RUNNING", "SUCCESS", "FAILED", "SKIPPED", "ROLLED_BACK"}

\* Mutant of is_done: a FAILED node counts as done too.
IsDoneAnyFinal(n) == n.status \in {"SUCCESS", "SKIPPED", "FAILED"}

\* StepNode.is_done
is_done(n) == n.status \in {"SUCCESS", "SKIPPED"}

(***************************************************************************)
(* utils/retry_policy.py : METHOD_PRIORITY and the dynamic fallback chain   *)
(***************************************************************************)
Methods == {"accessibility", "browser", "system", "cv", "auto"}

DEFAULT_PRIORITY == <<"accessibility", "system", "browser", "cv">>

METHOD_PRIORITY(action) ==
    CASE action = "open_app"         -> <<"system", "accessibility", "cv">>
      [] action = "open_terminal"    -> <<"system">>
      [] action = "find_and_click"   -> <<"accessibility", "browser", "cv">>
      [] action = "click_button"     -> <<"accessibility", "browser", "cv">>
      [] action = "click_result"     -> <<"accessibility", "browser", "cv">>
      [] action = "type_text"        -> <<"accessibility", "browser", "system">>
      [] action = "search"           -> <<"accessibility", "browser">>
      [] action = "navigate"         -> <<"browser">>
      [] action = "focus_window"     -> <<"system", "accessibility">>
      [] action = "close_window"     -> <<"system", "accessibility">>
      [] action = "set_volume"       -> <<"system">>
      [] action = "set_brightness"   -> <<"system">>
      [] action = "run_command"      -> <<"system">>
      [] action = "verify_window"    -> <<"system", "accessibility">>
      [] action = "wait_for_element" -> <<"accessibility", "browser">>
      [] action = "scroll"           -> <<"browser", "system", "cv">>
      [] action = "get_text"         -> <<"accessibility", "browser", "cv">>
      [] action = "open_menu"        -> <<"system", "accessibility">>
      [] OTHER                       -> DEFAULT_PRIORITY

\* execute_with_retry with no single-method action: no last resort.
NoSingleMethodActions == {}

single_method_actions == {"run_command", "set_volume", "set_brightness", "open_terminal"}

\* The per-(action, method) failure counters: a dict, absent key = 0.
EmptyCounts == [k \in {} |-> 0]

FailCount(fc, action, method) ==
    IF <<action, method>> \in DOMAIN fc THEN fc[<<action, method>>] ELSE 0

\* RetryPolicy._record_failure
_record_failure(fc, action, method) ==
    [k \in (DOMAIN fc) \cup {<<action, method>>} |->
        IF k = <<action, method>> THEN FailCount(fc, action, method) + 1 ELSE fc[k]]

RECURSIVE RemoveMethod(_, _)
RemoveMethod(seq, m) ==
    IF seq = <<>> THEN <<>>
    ELSE IF Head(seq) = m THEN RemoveMethod(Tail(seq), m)
    ELSE <<Head(seq)>> \o RemoveMethod(Tail(seq), m)

\* Stable insertion of x into a sequence sorted by failure count.
RECURSIVE InsertStable(_, _, _, _)
InsertStable(sorted, x, fc, action) ==
    IF sorted = <<>> THEN <<x>>
    ELSE IF FailCount(fc, action, Head(sorted)) <= FailCount(fc, action, x)
         THEN <<Head(sorted)>> \o InsertStable(Tail(sorted), x, fc, action)
         ELSE <<x>> \o sorted

RECURSIVE SortByFails(_, _, _)
SortByFails(seq, fc, action) ==
    IF seq = <<>> THEN <<>>
    ELSE InsertStable(SortByFails(SubSeq(seq, 1, Len(seq) - 1), fc, action),
                      seq[Len(seq)], fc, action)

\* get_fallback_chain without its sort: the static order, whatever failed.
FallbackChainStaticOrder(fc, action, current_method) ==
    RemoveMethod(METHOD_PRIORITY(action), current_method)

\* RetryPolicy.get_fallback_chain
get_fallback_chain(fc, action, current_method) ==
    SortByFails(RemoveMethod(METHOD_PRIORITY(action), current_method), fc, action)

(***************************************************************************)
(* core/error_classifier.py                                                 *)
(***************************************************************************)
RETRY_BUDGET(class) ==
    CASE class = "element_not_found"  -> 3
      [] class = "window_not_open"    -> 2
      [] class = "timeout"            -> 3
      [] class = "process_dead"       -> 1
      [] class = "permission_denied"  -> 0
      [] class = "browser_crash"      -> 1
      [] class = "network_error"      -> 4
      [] class = "schema_invalid"     -> 1
      [] class = "accessibility_fail" -> 2
      [] class = "cv_no_match"        -> 2
      [] class = "command_failed"     -> 2
      [] OTHER                        -> 1

\* ErrorClassifier.classify("executor returned None or False", action, method):
\* the message matches none of _PATTERNS, so _contextual_classify decides.
_contextual_classify(action, method) ==
    IF method = "accessibility" THEN "accessibility_fail"
    ELSE IF method = "cv" THEN "cv_no_match"
    ELSE IF action \in {"find_and_click", "click_button", "navigate",
                        "type_text", "wait_for_element"} THEN "element_not_found"
    ELSE IF action \in {"focus_window", "verify_window", "close_window"}
         THEN "window_not_open"
    ELSE "unknown"

(***************************************************************************)
(* core/orchestrator.py : pure helpers                                      *)
(***************************************************************************)
\* Orchestrator._verify returns True without consulting the verifier for these.
VerifySkipped == {"run_command", "open_app", "open_terminal", "open_menu",
                  "search", "click_result"}

\* The error classes an executor failure is drawn from.
ExecFailures == {"permission_denied", "timeout"}

\* The steps a planner may emit in this model: (action, method) pairs.
StepKinds ==
    { [action |-> "run_command",  method |-> "system"],
      [action |-> "open_app",     method |-> "system"],
      [action |-> "focus_window", method |-> "system"],
      [action |-> "focus_window", method |-> "accessibility"] }

Plans == UNION { [1..n -> StepKinds] : n \in 1..MaxSteps }

\* datetime.now() is counted: NoStamp stands for None, and Now(ns) is later
\* than every timestamp already written in the graph.
NoStamp == 0

Stamps(ns) ==
    {ns[i].started_at : i \in 1..Len(ns)} \cup {ns[i].finished_at : i \in 1..Len(ns)}
        \cup {NoStamp}

Now(ns) == 1 + (CHOOSE t \in Stamps(ns) : \A u \in Stamps(ns) : u <= t)

\* StepGraph.from_plan: one PENDING node per step, in plan order; node i
\* depends on node i-1. The step id (s<i>_<uuid>) is counted as i.
from_plan(p) ==
    [i \in 1..Len(p) |->
        [id |-> i, action |-> p[i].action, method |-> p[i].method,
         depends_on |-> IF i > 1 THEN <<i - 1>> ELSE <<>>,
         status |-> "PENDING", attempts |-> 0, error |-> "",
         started_at |-> NoStamp, finished_at |-> NoStamp, method_used |-> ""]]

\* _deps_ok with the edges read backwards: a node waits for its successors.
DepsOkReversedEdges(ns, i) ==
    \A j \in 1..Len(ns) :
        (\E k \in 1..Len(ns[j].depends_on) : ns[j].depends_on[k] = ns[i].id)
            => is_done(ns[j])

\* StepGraph._deps_ok: a dependency id that names no node is passed over.
_deps_ok(ns, i) ==
    \A k \in 1..Len(ns[i].depends_on) :
        \A j \in 1..Len(ns) :
            ns[j].id = ns[i].depends_on[k] => is_done(ns[j])

\* StepGraph._id_index.keys()
Ids(ns) == {ns[i].id : i \in 1..Len(ns)}

\* StepGraph._id_index[nid]
NodeOf(ns, nid) == ns[CHOOSE i \in 1..Len(ns) : ns[i].id = nid]

\* _validate, lines 223-230: some depends_on entry names no node.
HasOrphan(ns) ==
    \E i \in 1..Len(ns) :
        \E k \in 1..Len(ns[i].depends_on) : ns[i].depends_on[k] \notin Ids(ns)

\* _validate, lines 236-246: dfs(nid) and its loop over node.depends_on from
\* entry k on. st = [visited, rec_stack, raised]; raised stands for the
\* GraphBuildError that ends the whole search.
RECURSIVE dfs(_, _, _)
RECURSIVE dfs_deps(_, _, _, _)
dfs(ns, nid, st) ==
    LET entered == [st EXCEPT !.visited = @ \cup {nid}, !.rec_stack = @ \cup {nid}]
        after   == dfs_deps(ns, nid, 1, entered)
    IN IF after.raised THEN after
       ELSE [after EXCEPT !.rec_stack = @ \ {nid}]

dfs_deps(ns, nid, k, st) ==
    LET deps == NodeOf(ns, nid).depends_on IN
    IF st.raised \/ k > Len(deps) THEN st
    ELSE IF deps[k] \notin st.visited
         THEN dfs_deps(ns, nid, k + 1, dfs(ns, deps[k], st))
    ELSE IF deps[k] \in st.rec_stack
         THEN [st EXCEPT !.raised = TRUE]
    ELSE dfs_deps(ns, nid, k + 1, st)

\* _validate, lines 248-250: "for nid in ids", ids being a set of strings
\* whose iteration order is the interpreter's; order lists the ids in the
\* order of one iteration.
RECURSIVE dfs_all(_, _, _)
dfs_all(ns, order, st) ==
    IF st.raised \/ order = <<>> THEN st
    ELSE IF Head(order) \in st.visited
         THEN dfs_all(ns, Tail(order), st)
    ELSE dfs_all(ns, Tail(order), dfs(ns, Head(order), st))

\* _validate that stops after the orphan check.
ValidateOrphansOnly(ns, order) == ~HasOrphan(ns)

\* StepGraph._validate: TRUE when it returns, FALSE when it raises
\* GraphBuildError.
_validate(ns, order) ==
    /\ ~HasOrphan(ns)
    /\ ~dfs_all(ns, order, [visited |-> {}, rec_stack |-> {}, raised |-> FALSE]).raised

\* StepGraph.freeze
freeze(f) == TRUE

\* pending_nodes without the _deps_ok test.
PendingNodesIgnoreDeps(ns) ==
    SelectSeq([i \in 1..Len(ns) |-> i], LAMBDA i : ns[i].status = "PENDING")

\* StepGraph.pending_nodes (indices, in plan order)
pending_nodes(ns) ==
    SelectSeq([i \in 1..Len(ns) |-> i],
              LAMBDA i : ns[i].status = "PENDING" /\ _deps_ok(ns, i))

\* StepGraph.progress()[0]
progress(ns) == Cardinality({i \in 1..Len(ns) : is_done(ns[i])})

NoResult ==
    [success |-> FALSE, steps_done |-> 0, steps_total |-> 0, error |-> ""]

\* Orchestrator._make_result
_make_result(ns, error) ==
    [success |-> (error = "" /\ progress(ns) = Len(ns)),
     steps_done |-> progress(ns), steps_total |-> Len(ns), error |-> error]

(***************************************************************************)
(* State                                                                    *)
(***************************************************************************)
(***************************************************************************)
(* core/action_result.py, core/step_executor.py                             *)
(***************************************************************************)
\* ECode.NONE and RHint.NONE are the empty string.
ECode_NONE == ""

ECode ==
    {ECode_NONE, "element_not_found", "window_not_open", "timeout",
     "process_dead", "permission_denied", "browser_crash", "network_error",
     "schema_invalid", "accessibility_fail", "cv_no_match", "command_failed",
     "unknown"}

\* _CODE_TO_HINT.get(error_code, RHint.FULL_RESET)
_CODE_TO_HINT(error_code) ==
    CASE error_code = "element_not_found"  -> "switch_method"
      [] error_code = "window_not_open"    -> "reopen_app"
      [] error_code = "timeout"            -> "retry_with_longer_wait"
      [] error_code = "process_dead"       -> "relaunch_process"
      [] error_code = "permission_denied"  -> "skip_or_escalate"
      [] error_code = "browser_crash"      -> "restart_browser"
      [] error_code = "network_error"      -> "retry_with_backoff"
      [] error_code = "schema_invalid"     -> "replan"
      [] error_code = "accessibility_fail" -> "switch_to_cv"
      [] error_code = "cv_no_match"        -> "switch_to_ocr"
      [] error_code = "command_failed"     -> "alternative_command"
      [] OTHER                             -> "full_reset"

\* A keyword argument the caller leaves out.
Omitted == "<omitted>"

\* No ActionResult has been produced yet.
NoActionResult ==
    [success |-> TRUE, action |-> "", method |-> "", error |-> "",
     error_code |-> ECode_NONE, recovery_hint |-> "", by |-> ""]

\* ActionResult.ok; by names the factory or executor that produced the value.
ok(action, method) ==
    [success |-> TRUE, action |-> action, method |-> method, error |-> "",
     error_code |-> ECode_NONE, recovery_hint |-> "", by |-> "ok"]

\* ActionResult.fail with the dataclass default of error_code in place of
\* the default of the factory.
FailDataclassDefault(action, method, error, error_code, recovery_hint) ==
    LET code == IF error_code = Omitted THEN ECode_NONE ELSE error_code
        hint == IF recovery_hint \notin {Omitted, ""} THEN recovery_hint
                ELSE _CODE_TO_HINT(code)
    IN [success |-> FALSE, action |-> action, method |-> method,
        error |-> error, error_code |-> code, recovery_hint |-> hint,
        by |-> "fail"]

\* ActionResult.fail: error_code defaults to ECode.UNKNOWN, recovery_hint to
\* the hint of the code.
fail(action, method, error, error_code, recovery_hint) ==
    LET code == IF error_code = Omitted THEN "unknown" ELSE error_code
        hint == IF recovery_hint \notin {Omitted, ""} THEN recovery_hint
                ELSE _CODE_TO_HINT(code)
    IN [success |-> FALSE, action |-> action, method |-> method,
        error |-> error, error_code |-> code, recovery_hint |-> hint,
        by |-> "fail"]

\* The exceptions a backend raises in this model: type(exc).__name__ and
\* str(exc).
ExcNames ==
    {"TimeoutError", "PermissionError", "FileNotFoundError",
     "WindowNotFound", "RuntimeError", "OSError"}

ExcMessages ==
    {"", "Access is denied", "no such window", "exit status 1", "timed out"}

\* needle in type(exc).__name__.lower()
InExcName(needle, name) ==
    CASE needle = "timeout"      -> name = "TimeoutError"
      [] needle = "permission"   -> name = "PermissionError"
      [] needle = "filenotfound" -> name = "FileNotFoundError"
      [] needle = "notfound"     -> name \in {"FileNotFoundError", "WindowNotFound"}
      [] OTHER                   -> FALSE

\* "access" in err_msg.lower()
HasAccess(err_msg) == err_msg = "Access is denied"

\* ActionResult.from_exception
from_exception(exc, action, method) ==
    LET code == IF InExcName("timeout", exc.name) THEN "timeout"
                ELSE IF InExcName("permission", exc.name) \/ HasAccess(exc.msg)
                     THEN "permission_denied"
                ELSE IF InExcName("filenotfound", exc.name)
                        \/ InExcName("notfound", exc.name)
                     THEN "element_not_found"
                ELSE "unknown"
    IN [fail(action, method, exc.msg, code, Omitted)
          EXCEPT !.by = "from_exception"]

\* What an action backend can do when it is called: return a truthy value,
\* return a falsy one, exceed the timeout of the call, raise.
BackendOutcomes == {"truthy", "falsy", "timeout", "raised"}

\* StepExecutor.execute with the method the step declares: the backend's
\* answer raw (and, when it raises, the exception exc) becomes an
\* ActionResult.
execute(step, raw, exc) ==
    LET r == CASE raw = "truthy"  -> ok(step.action, step.method)
               [] raw = "falsy"   -> fail(step.action, step.method,
                                          "Executor returned falsy result",
                                          Omitted, Omitted)
               [] raw = "timeout" -> fail(step.action, step.method,
                                          "TimeoutError after", Omitted, Omitted)
               [] OTHER           -> fail(step.action, step.method, exc.msg,
                                          Omitted, Omitted)
    IN [r EXCEPT !.by = "execute"]

(***************************************************************************)
(* core/recovery.py : full_reset                                            *)
(***************************************************************************)
\* for attempt in range(2)
RESET_ATTEMPTS == 2

\* full_reset without its except clause: the first attempt that raises or
\* times out ends the routine with that exception.
RECURSIVE FullResetNoHandler(_)
FullResetNoHandler(raws) ==
    IF raws = <<>> THEN [raised |-> FALSE, value |-> FALSE]
    ELSE IF Head(raws) = "truthy" THEN [raised |-> FALSE, value |-> TRUE]
    ELSE IF Head(raws) = "falsy" THEN FullResetNoHandler(Tail(raws))
    ELSE [raised |-> TRUE, value |-> FALSE]

\* RecoveryEngine.full_reset, lines 112-126: raws[k] is what the backend does
\* in attempt k; an attempt that raises or times out is logged and counts as
\* failed. raised tells whether an exception leaves the routine.
RECURSIVE full_reset(_)
full_reset(raws) ==
    IF raws = <<>> THEN [raised |-> FALSE, value |-> FALSE]
    ELSE IF Head(raws) = "truthy" THEN [raised |-> FALSE, value |-> TRUE]
    ELSE full_reset(Tail(raws))

(***************************************************************************)
(* core/execution_audit.py                                                  *)
(***************************************************************************)
\* ExecutionAudit: _active, _events (the event names, in order), and what
\* end_task() has written since the last start_task(): saved holds one entry
\* per audit log file, crash_dumps counts the crash dumps.
AuditInit ==
    [_active |-> FALSE, _events |-> <<>>, saved |-> <<>>, crash_dumps |-> 0]

\* ExecutionAudit._record
_record(a, event) ==
    IF ~a._active /\ event # "task_start" THEN a
    ELSE [a EXCEPT !._events = Append(@, event)]

\* ExecutionAudit.start_task
start_task(a) ==
    _record([a EXCEPT !._events = <<>>, !._active = TRUE,
                      !.saved = <<>>, !.crash_dumps = 0], "task_start")

\* ExecutionAudit.end_task; context_snap is the non-empty ctx.snapshot().
end_task(a, success) ==
    LET a1 == _record(_record(a, "task_end"), "context_snapshot")
    IN [a1 EXCEPT !.saved = Append(@, [success |-> success,
                                       events |-> a1._events]),
                  !.crash_dumps = IF success THEN @ ELSE @ + 1,
                  !._active = FALSE]

\* ExecutionAudit.step_start
step_start(a) == _record(a, "step_start")

\* ExecutionAudit.step_end
step_end(a) == _record(a, "step_end")

\* ExecutionAudit.rollback_event
rollback_event(a, rollback_results) == _record(a, "rollback")

\* No caller has invoked an operation of the graph directly.
NoGraphCall == [op |-> "", id |-> 0]

VARIABLES
    sm,           \* StateMachine: [state, prev, step, history]
    sm_call,      \* the last call made on the StateMachine: [op, req, raised]
    pc,           \* position of run(): idle / plan / loop / exec / reset /
                  \*   verify / finish / done / raised
    exc,          \* the exception that escaped run() ("" when none)
    mode,         \* ExecutionContext.mode of the current run
    runs,         \* number of run() calls made so far
    pc2,          \* position of a run() called while another run() is
                  \*   suspended: idle / plan / raised
    abort,        \* Orchestrator._abort
    wd,           \* Watchdog: [running, pc, age, abort_requested, abort_reason]
    nodes,        \* StepGraph.nodes of the current run
    frozen,       \* StepGraph._frozen of that graph
    cur,          \* index of the node _exec_node is working on (0: none)
    n_primary,    \* execute_with_retry: level-1 calls made for this node
    res_method,   \* _exec_node: result.method ("" while there is no result)
    fail_counts,  \* RetryPolicy._fail_counts
    rb_stack,     \* RollbackManager._stack
    rb_log,       \* the result records rollback_all() returned in this run
    exec_called,  \* actions handed to an action executor during this run
    result,       \* the TaskResult of the run
    last_call,    \* the last replan_from or rollback_from a caller made: [op, id]
    audit,        \* the ExecutionAudit of the orchestrator
    bk_raised,    \* a backend call made for the node in hand raised or timed out
    reset_calls,  \* executor calls full_reset() made for the node in hand
    action_result \* the ActionResult most recently produced for a caller

vars == <<sm, sm_call, pc, exc, mode, runs, pc2, frozen, abort, wd, nodes, cur, n_primary,
          res_method, fail_counts, rb_stack, rb_log, exec_called,
          result, last_call, audit, bk_raised, reset_calls, action_result>>

orch_vars == <<pc, mode, runs, pc2, frozen, abort, wd, nodes, cur, n_primary,
               res_method, fail_counts, rb_stack, rb_log, exec_called, result,
               last_call, audit, bk_raised, reset_calls, action_result>>

node_locals == <<cur, n_primary, res_method>>

\* StateMachine.__init__
SMInit == [state |-> "INIT", prev |-> "none", step |-> 0, history |-> <<>>]

NoCall == [op |-> "none", req |-> "none", raised |-> FALSE]

\* Watchdog.__init__
WDInit == [running |-> FALSE, pc |-> "idle", age |-> 0,
           abort_requested |-> FALSE, abort_reason |-> "", last_event |-> ""]

Init ==
    /\ sm = SMInit
    /\ sm_call = NoCall
    /\ pc = "idle"
    /\ exc = ""
    /\ mode = "live"
    /\ runs = 0
    /\ pc2 = "idle"
    /\ abort = FALSE
    /\ wd = WDInit
    /\ nodes = <<>>
    /\ frozen = FALSE
    /\ cur = 0
    /\ n_primary = 0
    /\ res_method = ""
    /\ fail_counts = EmptyCounts
    /\ rb_stack = <<>>
    /\ rb_log = <<>>
    /\ exec_called = {}
    /\ result = NoResult
    /\ last_call = NoGraphCall
    /\ audit = AuditInit
    /\ bk_raised = FALSE
    /\ reset_calls = 0
    /\ action_result = NoActionResult

(***************************************************************************)
(* core/state_machine.py : operations                                       *)
(***************************************************************************)
\* StateMachine._apply
_apply(m, new_state, step_num, action) ==
    [state   |-> new_state,
     prev    |-> m.state,
     step    |-> IF new_state = "INIT" THEN 0
                 ELSE IF new_state = "EXECUTING" /\ step_num # 0 THEN step_num
                 ELSE m.step,
     history |-> Append(m.history, HistEntry(m.state, new_state, action))]

\* transition that applies the change before it validates: a rejected
\* request has already been recorded.
TransitionApplyFirst(m, new_state, step_num, action) ==
    [ok |-> Validate(m.state, new_state),
     sm |-> _apply(m, new_state, step_num, action)]

\* StateMachine.transition: [ok, sm]; ok = FALSE is IllegalTransitionError,
\* which leaves the machine as it was.
transition(m, new_state, step_num, action) ==
    IF Validate(m.state, new_state)
    THEN [ok |-> TRUE,  sm |-> _apply(m, new_state, step_num, action)]
    ELSE [ok |-> FALSE, sm |-> m]

\* Mutant of force_reset: the history entry is appended but _state is not
\* written.
ForceResetHistoryOnly(m) ==
    [m EXCEPT !.step = 0,
              !.history = Append(@, HistEntry(m.state, "INIT", "FORCE_RESET"))]

\* StateMachine.force_reset
force_reset(m) ==
    [state   |-> "INIT",
     prev    |-> m.prev,
     step    |-> 0,
     history |-> Append(m.history, HistEntry(m.state, "INIT", "FORCE_RESET"))]

\* Orchestrator._force_reset_state: writes _state directly.
_force_reset_state(m) == [m EXCEPT !.state = "INIT"]

CallRec(op, req, t) == [op |-> op, req |-> req, raised |-> ~t.ok]

(***************************************************************************)
(* The StateMachine on its own: any caller, any request.                    *)
(***************************************************************************)
SMTransition(new_state) ==
    /\ Len(sm.history) < MaxHist
    /\ LET t == transition(sm, new_state, 0, "") IN
        /\ sm' = t.sm
        /\ sm_call' = CallRec("transition", new_state, t)
        /\ exc' = IF t.ok THEN "" ELSE "IllegalTransitionError"
    /\ UNCHANGED orch_vars

SMTransitionSync(new_state) ==
    /\ Len(sm.history) < MaxHist
    /\ LET t == transition(sm, new_state, 0, "") IN
        /\ sm' = t.sm
        /\ sm_call' = CallRec("transition_sync", new_state, t)
        /\ exc' = IF t.ok THEN "" ELSE "IllegalTransitionError"
    /\ UNCHANGED orch_vars

SMForceReset ==
    /\ Len(sm.history) < MaxHist
    /\ sm' = force_reset(sm)
    /\ sm_call' = [op |-> "force_reset", req |-> "INIT", raised |-> FALSE]
    /\ exc' = ""
    /\ UNCHANGED orch_vars

NextSM ==
    \/ \E s \in TaskState : SMTransition(s)
    \/ \E s \in TaskState : SMTransitionSync(s)
    \/ SMForceReset

SpecSM == Init /\ [][NextSM]_vars

(***************************************************************************)
(* utils/watchdog.py : operations                                           *)
(***************************************************************************)
HB_MSG == "Heartbeat timeout"

\* Watchdog.start: a no-op when the thread is already running.
wd_start(w) ==
    IF w.running THEN w
    ELSE [w EXCEPT !.running = TRUE, !.abort_requested = FALSE, !.age = 0]

\* Watchdog.stop: stops the thread; join() lets a check that is in flight
\* finish, so its abort_reason write and alert callback still happen.
wd_stop(w) ==
    [w EXCEPT !.running = FALSE, !.pc = "idle",
              !.abort_reason = IF w.pc = "fired" THEN HB_MSG ELSE @,
              !.last_event = IF w.pc = "fired" THEN "heartbeat_timeout" ELSE @,
              !.age = IF w.pc = "fired" THEN 0 ELSE @]

\* Orchestrator._abort after stop(): the in-flight heartbeat alert is delivered.
abort_after_stop(w, a) == IF w.pc = "fired" THEN TRUE ELSE a

\* Watchdog.heartbeat
heartbeat(w) == [w EXCEPT !.age = 0]

\* Watchdog._fire: the event is remembered (the alert callback is applied by
\* the action that fires).
_fire(w, event_type) == [w EXCEPT !.last_event = event_type]

\* An alert callback that aborts on every event.
OnWatchdogAlertAnyEvent(event, a) == TRUE

\* Orchestrator._on_watchdog_alert
_on_watchdog_alert(event, a) == IF event = "heartbeat_timeout" THEN TRUE ELSE a

AwaitPcs == {"plan", "exec", "reset", "verify"}

\* Time passes while run() is suspended in an await (planner, executor,
\* full_reset, verifier): the heartbeat grows TickS older. Once the abort flag
\* is set a further timeout writes the same values again, so the clock is
\* followed up to the first timeout of a run only.
Elapse ==
    /\ wd.running
    /\ pc \in AwaitPcs
    /\ wd.age <= HEARTBEAT_TIMEOUT_S
    /\ ~wd.abort_requested
    /\ wd' = [wd EXCEPT !.age = @ + TickS]
    /\ UNCHANGED <<sm, sm_call, pc, exc, mode, runs, pc2, frozen, abort, nodes, node_locals,
                   fail_counts, rb_stack, rb_log, exec_called, result,
                   last_call, audit, bk_raised, reset_calls, action_result>>

\* Watchdog._check_heartbeat, first half: the age test and the flag write.
WdCheck ==
    /\ wd.running
    /\ wd.pc = "idle"
    /\ wd.age > HEARTBEAT_TIMEOUT_S
    /\ wd' = [wd EXCEPT !.abort_requested = TRUE, !.pc = "fired"]
    /\ UNCHANGED <<sm, sm_call, pc, exc, mode, runs, pc2, frozen, abort, nodes, node_locals,
                   fail_counts, rb_stack, rb_log, exec_called, result,
                   last_call, audit, bk_raised, reset_calls, action_result>>

\* Watchdog._check_heartbeat, second half: abort_reason, the alert callback
\* (_fire -> Orchestrator._on_watchdog_alert) and the clock reset.
WdFire ==
    /\ wd.running
    /\ wd.pc = "fired"
    /\ wd' = _fire([wd EXCEPT !.abort_reason = HB_MSG, !.pc = "idle", !.age = 0],
                   "heartbeat_timeout")
    /\ abort' = _on_watchdog_alert("heartbeat_timeout", abort)
    /\ UNCHANGED <<sm, sm_call, pc, exc, mode, runs, pc2, frozen, nodes, node_locals,
                   fail_counts, rb_stack, rb_log, exec_called, result,
                   last_call, audit, bk_raised, reset_calls, action_result>>

\* The events _check_processes fires: a watched process is gone, a window is
\* "(not responding)".
ProcessEvents == {"process_dead", "window_crash"}

\* Watchdog._check_processes, between two heartbeat checks: pgrep or wmctrl
\* reports trouble and the alert is fired.
WdProcessAlert(ev) ==
    /\ wd.running
    /\ wd.pc = "idle"
    /\ wd' = _fire(wd, ev)
    /\ abort' = _on_watchdog_alert(ev, abort)
    /\ UNCHANGED <<sm, sm_call, pc, exc, mode, runs, pc2, frozen, nodes, node_locals,
                   fail_counts, rb_stack, rb_log, exec_called, result,
                   last_call, audit, bk_raised, reset_calls, action_result>>

\* Watchdog._check_resources: CPU above 92 % or memory above 600 MB is
\* logged; nothing is fired and no field is written.
WdResourcePressure ==
    /\ wd.running
    /\ wd.pc = "idle"
    /\ UNCHANGED vars

(***************************************************************************)
(* core/orchestrator.py : run(), up to the graph loop                       *)
(***************************************************************************)
\* run(), lines 161-190: reset _abort, start the watchdog, start the audit,
\* clear the rollback stack, request INIT -> PLANNED.
RunEnter(m) ==
    /\ runs' = runs + 1
    /\ mode' = m
    /\ abort' = FALSE
    /\ wd' = wd_start(wd)
    /\ rb_stack' = <<>>
    /\ rb_log' = <<>>
    /\ exec_called' = {}
    /\ nodes' = <<>>
    /\ frozen' = FALSE
    /\ result' = NoResult
    /\ cur' = 0 /\ n_primary' = 0 /\ res_method' = "" /\ bk_raised' = FALSE
    /\ reset_calls' = 0
    /\ audit' = start_task(audit)
    /\ LET t == transition(sm, "PLANNED", 0, "") IN
        /\ sm' = t.sm
        /\ sm_call' = CallRec("transition", "PLANNED", t)
        /\ pc' = IF t.ok THEN "plan" ELSE "raised"
        /\ exc' = IF t.ok THEN "" ELSE "IllegalTransitionError"
    /\ UNCHANGED <<fail_counts, pc2,
                   last_call, action_result>>

\* The first run() on a new Orchestrator.
RunStart(m) ==
    /\ pc = "idle"
    /\ RunEnter(m)

\* A later run() on the same Orchestrator, called after the previous call
\* returned or raised.
RunAgain(m) ==
    /\ pc \in {"done", "raised"}
    /\ runs < MaxRuns
    /\ RunEnter(m)

\* run() is called again while the first call is suspended in an await: lines
\* 161-190 run without suspension up to the transition, which raises or lets
\* the second call go on to its planner.
RunWhileSuspended ==
    /\ pc \in AwaitPcs
    /\ pc2 = "idle"
    /\ runs' = runs + 1
    /\ abort' = FALSE
    /\ wd' = wd_start(wd)
    /\ audit' = start_task(audit)
    /\ rb_stack' = <<>>
    /\ LET t == transition(sm, "PLANNED", 0, "") IN
        /\ sm' = t.sm
        /\ sm_call' = CallRec("transition", "PLANNED", t)
        /\ pc2' = IF t.ok THEN "plan" ELSE "raised"
    /\ UNCHANGED <<pc, exc, mode, frozen, nodes, node_locals, fail_counts,
                   rb_log, exec_called, result,
                   last_call, bk_raised, reset_calls, action_result>>

\* run(), lines 191-199: _plan() returned None.
PlanFailed ==
    /\ pc = "plan"
    /\ LET t == transition(sm, "FAILED", 0, "") IN
        /\ sm_call' = IF t.ok THEN [op |-> "direct", req |-> "INIT", raised |-> FALSE]
                      ELSE CallRec("transition", "FAILED", t)
        /\ IF t.ok
           THEN /\ sm' = _force_reset_state(t.sm)
                /\ wd' = wd_stop(wd)
                /\ abort' = abort_after_stop(wd, abort)
                /\ result' = [success |-> FALSE, steps_done |-> 0,
                              steps_total |-> 0, error |-> "Planning failed"]
                /\ pc' = "done"
                /\ exc' = ""
           ELSE /\ sm' = t.sm
                /\ pc' = "raised"
                /\ exc' = "IllegalTransitionError"
                /\ UNCHANGED <<wd, abort, result>>
    /\ UNCHANGED <<mode, runs, pc2, frozen, nodes, node_locals, fail_counts, rb_stack, rb_log,
                   exec_called,
                   last_call, audit, bk_raised, reset_calls, action_result>>

\* run(), lines 203-217: DRY_RUN. ctx.simulate(plan) only logs; the watchdog
\* is stopped, then SUCCESS and INIT are requested from the state machine.
PlanDryRun(p) ==
    /\ pc = "plan"
    /\ mode = "dry_run"
    /\ wd' = wd_stop(wd)
    /\ abort' = abort_after_stop(wd, abort)
    /\ LET t1 == transition(sm, "SUCCESS", 0, "")
           t2 == transition(t1.sm, "INIT", 0, "")
       IN IF ~t1.ok
          THEN /\ sm' = t1.sm
               /\ sm_call' = CallRec("transition", "SUCCESS", t1)
               /\ pc' = "raised"
               /\ exc' = "IllegalTransitionError"
               /\ UNCHANGED result
          ELSE /\ sm' = t2.sm
               /\ sm_call' = CallRec("transition", "INIT", t2)
               /\ pc' = IF t2.ok THEN "done" ELSE "raised"
               /\ exc' = IF t2.ok THEN "" ELSE "IllegalTransitionError"
               /\ result' = IF t2.ok
                            THEN [success |-> TRUE, steps_done |-> 0,
                                  steps_total |-> Len(p),
                                  error |-> "dry_run: no actions executed"]
                            ELSE result
    /\ UNCHANGED <<mode, runs, pc2, frozen, nodes, node_locals, fail_counts, rb_stack, rb_log,
                   exec_called,
                   last_call, audit, bk_raised, reset_calls, action_result>>

\* run(), lines 219-227: StepGraph.from_plan(plan), graph.freeze().
PlanBuild(p) ==
    /\ pc = "plan"
    /\ mode # "dry_run"
    /\ nodes' = from_plan(p)
    /\ frozen' = freeze(frozen)
    /\ pc' = "loop"
    /\ UNCHANGED <<sm, sm_call, exc, mode, runs, pc2, abort, wd, node_locals,
                   fail_counts, rb_stack, rb_log, exec_called, result,
                   last_call, audit, bk_raised, reset_calls, action_result>>

(***************************************************************************)
(* core/step_graph.py : node status changes                                 *)
(***************************************************************************)
\* mark_running without its first two lines.
MarkRunningNoGuard(n, now) ==
    [n EXCEPT !.status = "RUNNING", !.started_at = now, !.attempts = @ + 1]

\* StepNode.mark_running
mark_running(n, now) ==
    IF n.status = "SUCCESS" THEN n
    ELSE [n EXCEPT !.status = "RUNNING", !.started_at = now, !.attempts = @ + 1]

\* StepNode.mark_success
mark_success(n, method_used, now) ==
    [n EXCEPT !.status = "SUCCESS", !.finished_at = now,
              !.method_used = method_used]

\* StepNode.mark_failed
mark_failed(n, error, now) ==
    [n EXCEPT !.status = "FAILED", !.finished_at = now, !.error = error]

\* mark_skipped that leaves the node as it is.
MarkSkippedNoop(n, reason) == n

\* StepNode.mark_skipped
mark_skipped(n, reason) == [n EXCEPT !.status = "SKIPPED", !.error = reason]

\* StepNode.reset_for_retry: attempts and method_used are kept.
reset_for_retry(n) ==
    [n EXCEPT !.status = "PENDING", !.error = "",
              !.started_at = NoStamp, !.finished_at = NoStamp]

\* replan_from that hands back the reset suffix as the graph's node list.
ReplanFromKeepsSuffixOnly(ns, failed_step_id) ==
    SelectSeq([i \in 1..Len(ns) |-> reset_for_retry(ns[i])],
              LAMBDA n : \E j \in 1..Len(ns) :
                            ns[j].id = failed_step_id /\ ns[j].id <= n.id)

\* replan_from that resets the node with the id and no later one.
ReplanFromFailedNodeOnly(ns, failed_step_id) ==
    [i \in 1..Len(ns) |->
        IF ns[i].id = failed_step_id THEN reset_for_retry(ns[i]) ELSE ns[i]]

\* StepGraph.replan_from: the nodes from failed_step_id onward are reset in
\* place; the flag is cleared and set again within the call.
replan_from(ns, failed_step_id) ==
    [i \in 1..Len(ns) |->
        IF \E j \in 1..i : ns[j].id = failed_step_id
        THEN reset_for_retry(ns[i]) ELSE ns[i]]

\* The graphs a caller can wire: nodes 1..n, each with up to MaxDeps
\* dependency ids, n + 1 being an id that names no node.
WiredNode(i, deps) ==
    [id |-> i, action |-> "open_app", method |-> "system", depends_on |-> deps,
     status |-> "PENDING", attempts |-> 0, error |-> "",
     started_at |-> NoStamp, finished_at |-> NoStamp, method_used |-> ""]

DepLists(n) == UNION {[1..k -> 1..(n + 1)] : k \in 0..MaxDeps}

WiredGraphs ==
    UNION { {[i \in 1..n |-> WiredNode(i, w[i])] : w \in [1..n -> DepLists(n)]}
            : n \in 0..MaxGraph }

\* The orders in which the ids of ns can be iterated.
IdOrders(ns) ==
    {o \in [1..Len(ns) -> Ids(ns)] : \A j, k \in 1..Len(ns) : j # k => o[j] # o[k]}

\* from_plan, lines 190-191 and 212-213, for steps wired as in g: the empty
\* step list is refused, then _validate runs on the nodes. The graph handed in
\* is kept in nodes, the GraphBuildError (or none) in exc.
BuildGraph(g, order) ==
    /\ pc = "idle"
    /\ nodes = <<>>
    /\ exc = ""
    /\ nodes' = g
    /\ exc' = IF g = <<>> \/ ~_validate(g, order) THEN "GraphBuildError" ELSE ""
    /\ UNCHANGED <<sm, sm_call, pc, mode, runs, pc2, frozen, abort, wd,
                   node_locals, fail_counts, rb_stack, rb_log, exec_called,
                   result,
                   last_call, audit, bk_raised, reset_calls, action_result>>

\* One graph is built per behaviour.
NextBuild ==
    /\ nodes = <<>>
    /\ exc = ""
    /\ \E g \in WiredGraphs : \E order \in IdOrders(g) : BuildGraph(g, order)

SpecBuild == Init /\ [][NextBuild]_vars

(***************************************************************************)
(* core/orchestrator.py : _exec_graph                                       *)
(***************************************************************************)
ready == pending_nodes(nodes)

\* _exec_graph that never looks at the abort flag.
AbortNeverSeen == FALSE

\* _exec_graph, line 303
AbortSeen == abort \/ wd.abort_requested

\* _exec_graph, lines 297-299 and 332-334: nothing is ready, the loop ends.
LoopDone ==
    /\ pc = "loop"
    /\ ready = <<>>
    /\ result' = _make_result(nodes,
                    IF progress(nodes) = Len(nodes) THEN "" ELSE "incomplete")
    /\ pc' = "finish"
    /\ UNCHANGED <<sm, sm_call, exc, mode, runs, pc2, frozen, abort, wd, nodes, node_locals,
                   fail_counts, rb_stack, rb_log, exec_called,
                   last_call, audit, bk_raised, reset_calls, action_result>>

\* _exec_graph, lines 302-307: the abort flag is set when the node is checked.
NodeAbort ==
    /\ pc = "loop"
    /\ ready # <<>>
    /\ AbortSeen
    /\ LET i  == ready[1]
           ns == [nodes EXCEPT ![i] = mark_failed(@, "Watchdog abort", Now(nodes))]
           failed_error == IF wd.abort_reason # "" THEN wd.abort_reason
                           ELSE "Watchdog abort"
           t  == transition(sm, "FAILED", 0, "")
       IN /\ nodes' = ns
          /\ sm' = t.sm
          /\ sm_call' = CallRec("transition", "FAILED", t)
          /\ pc' = IF t.ok THEN "finish" ELSE "raised"
          /\ exc' = IF t.ok THEN exc ELSE "IllegalTransitionError"
          /\ result' = IF t.ok THEN _make_result(ns, failed_error) ELSE result
    /\ UNCHANGED <<mode, runs, pc2, frozen, abort, wd, node_locals, fail_counts, rb_stack,
                   rb_log, exec_called,
                   last_call, audit, bk_raised, reset_calls, action_result>>

\* _exec_graph, lines 309-316: the execution-mode gate refuses the node.
NodeSkip ==
    /\ pc = "loop"
    /\ ready # <<>>
    /\ ~AbortSeen
    /\ ~can_execute(mode, nodes[ready[1]].action)
    /\ nodes' = [nodes EXCEPT ![ready[1]] = mark_skipped(@, "blocked by exec_context")]
    /\ UNCHANGED <<sm, sm_call, pc, exc, mode, runs, pc2, frozen, abort, wd, node_locals,
                   fail_counts, rb_stack, rb_log, exec_called, result,
                   last_call, audit, bk_raised, reset_calls, action_result>>

\* _exec_node, lines 338-350: EXECUTING, mark_running, step_started heartbeat.
NodeStart ==
    /\ pc = "loop"
    /\ ready # <<>>
    /\ ~AbortSeen
    /\ can_execute(mode, nodes[ready[1]].action)
    /\ LET i == ready[1]
           t == transition(sm, "EXECUTING", i, nodes[i].action)
       IN /\ sm' = t.sm
          /\ sm_call' = CallRec("transition", "EXECUTING", t)
          /\ IF t.ok
             THEN /\ nodes' = [nodes EXCEPT ![i] = mark_running(@, Now(nodes))]
                  /\ wd' = heartbeat(wd)
                  /\ cur' = i
                  /\ audit' = step_start(audit)
                  /\ pc' = "exec"
                  /\ exc' = exc
             ELSE /\ pc' = "raised"
                  /\ exc' = "IllegalTransitionError"
                  /\ UNCHANGED <<nodes, wd, cur, audit>>
    /\ n_primary' = 0 /\ res_method' = "" /\ bk_raised' = FALSE
    /\ reset_calls' = 0
    /\ UNCHANGED <<mode, runs, pc2, frozen, abort, fail_counts, rb_stack, rb_log,
                   exec_called, result,
                   last_call, action_result>>

(***************************************************************************)
(* utils/retry_policy.py : execute_with_retry                               *)
(***************************************************************************)
\* The executor calls one execute_with_retry can make: level 1, the longest
\* fallback chain (DEFAULT_PRIORITY less one method), the last resort.
MaxCalls == max_attempts + Len(DEFAULT_PRIORITY) + 1

RECURSIVE RecordN(_, _, _, _)
RecordN(fc, action, method, n) ==
    IF n = 0 THEN fc
    ELSE RecordN(_record_failure(fc, action, method), action, method, n - 1)

\* execute_with_retry, line 128: level 1 makes max_attempts attempts with the
\* declared method, whatever the class of the error.
Level1Attempts(class) == max_attempts

\* The fallback loop without its return at the first success: the methods
\* after the one that succeeded are invoked as well.
RECURSIVE WalkFallbacksNoStop(_, _, _, _, _)
WalkFallbacksNoStop(fc, action, chain, c, s) ==
    IF chain = <<>>
    THEN [fc |-> fc, ok |-> FALSE, method |-> "", calls |-> c,
          tried |-> <<>>, last_resort |-> FALSE]
    ELSE LET here == [method |-> Head(chain),
                      fails  |-> FailCount(fc, action, Head(chain))]
             w == WalkFallbacksNoStop(_record_failure(fc, action, Head(chain)),
                                      action, Tail(chain), c + 1, s)
         IN IF s = c + 1
            THEN [w EXCEPT !.ok = TRUE, !.method = Head(chain),
                           !.tried = <<here>> \o @]
            ELSE [w EXCEPT !.tried = <<here>> \o @]

\* execute_with_retry, lines 158-187: the fallback loop and the last resort.
\* c executor calls have failed so far; call number s is the first to succeed
\* (s = 0: none does). tried lists the fallback methods handed to the
\* executor, each with the failure count it had when it was invoked.
RECURSIVE WalkFallbacks(_, _, _, _, _)
WalkFallbacks(fc, action, chain, c, s) ==
    IF chain = <<>>
    THEN IF action \in single_method_actions
         THEN [fc |-> fc, ok |-> (s = c + 1), method |-> "system",
               calls |-> c + 1, tried |-> <<>>, last_resort |-> TRUE]
         ELSE [fc |-> fc, ok |-> FALSE, method |-> "", calls |-> c,
               tried |-> <<>>, last_resort |-> FALSE]
    ELSE IF FailCount(fc, action, Head(chain)) >= FAILURE_DEMOTION_THRESHOLD
         THEN WalkFallbacks(fc, action, Tail(chain), c, s)
    ELSE LET here == [method |-> Head(chain),
                      fails  |-> FailCount(fc, action, Head(chain))]
         IN IF s = c + 1
            THEN [fc |-> fc, ok |-> TRUE, method |-> Head(chain),
                  calls |-> c + 1, tried |-> <<here>>, last_resort |-> FALSE]
            ELSE LET w == WalkFallbacks(_record_failure(fc, action, Head(chain)),
                                        action, Tail(chain), c + 1, s)
                 IN [w EXCEPT !.tried = <<here>> \o @]

\* RetryPolicy.execute_with_retry: the executor's answers are all failures of
\* class e up to call number s, which succeeds (s = 0: every call fails).
\* Returns the counters, whether a result came back, its method, the number
\* of executor calls, how many of them used the declared method in level 1,
\* the fallback chain computed at line 153 (<<>> when level 1 succeeded) and
\* what the fallback loop invoked.
execute_with_retry(fc, action, method, s, e) ==
    IF s \in 1..Level1Attempts(e)
    THEN [fc |-> RecordN(fc, action, method, s - 1), ok |-> TRUE,
          method |-> method, calls |-> s, primary |-> s,
          chain |-> <<>>, tried |-> <<>>, last_resort |-> FALSE]
    ELSE LET fc1 == RecordN(fc, action, method, Level1Attempts(e))
             fallbacks == get_fallback_chain(fc1, action, method)
             w   == WalkFallbacks(fc1, action, fallbacks, Level1Attempts(e), s)
         IN [fc |-> w.fc, ok |-> w.ok, method |-> w.method, calls |-> w.calls,
             primary |-> Level1Attempts(e),
             chain |-> fallbacks, tried |-> w.tried, last_resort |-> w.last_resort]

(***************************************************************************)
(* core/orchestrator.py : _exec_node, core/recovery.py                      *)
(***************************************************************************)
\* _exec_node, lines 369-408: execute_with_retry returns a result; heartbeat;
\* VERIFYING is requested.
RetryOk(s, e) ==
    /\ pc = "exec"
    /\ LET r == execute_with_retry(fail_counts, nodes[cur].action,
                                   nodes[cur].method, s, e)
           t == transition(sm, "VERIFYING", cur, "")
       IN /\ r.ok
          /\ r.calls = s
          /\ bk_raised' = (s > 1 /\ e = "timeout")
          /\ reset_calls' = 0
          /\ fail_counts' = r.fc
          /\ n_primary' = r.primary
          /\ res_method' = r.method
          /\ sm' = t.sm
          /\ sm_call' = CallRec("transition", "VERIFYING", t)
          /\ pc' = IF t.ok THEN "verify" ELSE "raised"
          /\ exc' = IF t.ok THEN exc ELSE "IllegalTransitionError"
    /\ exec_called' = exec_called \cup {nodes[cur].action}
    /\ wd' = heartbeat(wd)
    /\ UNCHANGED <<mode, runs, pc2, frozen, abort, nodes, cur, rb_stack, rb_log, result,
                   last_call, audit, action_result>>

\* _exec_node, lines 369-395: execute_with_retry returns None; heartbeat;
\* the failure is classified, RECOVERING is requested, full_reset starts.
RetryExhausted(e) ==
    /\ pc = "exec"
    /\ LET r == execute_with_retry(fail_counts, nodes[cur].action,
                                   nodes[cur].method, 0, e)
           t == transition(sm, "RECOVERING", 0, "")
       IN /\ bk_raised' = (e = "timeout")
          /\ reset_calls' = 0
          /\ fail_counts' = r.fc
          /\ n_primary' = r.primary
          /\ sm' = t.sm
          /\ sm_call' = CallRec("transition", "RECOVERING", t)
          /\ pc' = IF t.ok THEN "reset" ELSE "raised"
          /\ exc' = IF t.ok THEN exc ELSE "IllegalTransitionError"
    /\ exec_called' = exec_called \cup {nodes[cur].action}
    /\ wd' = heartbeat(wd)
    /\ UNCHANGED <<mode, runs, pc2, frozen, abort, nodes, cur, res_method, rb_stack, rb_log,
                   result,
                   last_call, audit, action_result>>

\* The answers the backend can give to the attempts full_reset makes: the
\* routine stops at the first truthy one.
ResetRaws ==
    { raws \in UNION { [1..n -> BackendOutcomes] : n \in 1..RESET_ATTEMPTS } :
        /\ \A k \in 1..(Len(raws) - 1) : raws[k] # "truthy"
        /\ Len(raws) < RESET_ATTEMPTS => raws[Len(raws)] = "truthy" }

\* Some backend call of raws raised or timed out.
Threw(raws) == \E k \in 1..Len(raws) : raws[k] \in {"timeout", "raised"}

\* full_reset, lines 112-121, and _exec_node, lines 402-408: one of the
\* post-reset attempts succeeds; the result becomes
\* ActionResult.ok(method="recovery") and VERIFYING is requested.
ResetOk ==
    /\ pc = "reset"
    /\ \E raws \in ResetRaws :
          LET r == full_reset(raws)
          IN /\ ~r.raised
             /\ r.value
             /\ bk_raised' = (bk_raised \/ Threw(raws))
             /\ reset_calls' = Len(raws)
    /\ exec_called' = exec_called \cup {nodes[cur].action}
    /\ res_method' = "recovery"
    /\ LET t == transition(sm, "VERIFYING", cur, "") IN
        /\ sm' = t.sm
        /\ sm_call' = CallRec("transition", "VERIFYING", t)
        /\ pc' = IF t.ok THEN "verify" ELSE "raised"
        /\ exc' = IF t.ok THEN exc ELSE "IllegalTransitionError"
    /\ n_primary' = 0
    /\ UNCHANGED <<mode, runs, pc2, frozen, abort, wd, nodes, cur, fail_counts, rb_stack,
                   rb_log, result,
                   last_call, audit, action_result>>

\* full_reset, lines 112-126, _exec_node, lines 396-401, and _exec_graph,
\* lines 320-324: every post-reset attempt fails; the node is marked FAILED,
\* FAILED is requested and _exec_graph returns the result.
ResetFail ==
    /\ pc = "reset"
    /\ exec_called' = exec_called \cup {nodes[cur].action}
    /\ \E raws \in ResetRaws :
        LET r   == full_reset(raws)
            err == _contextual_classify(nodes[cur].action, nodes[cur].method)
                     \o ": all retries exhausted"
            ns  == [nodes EXCEPT ![cur] = mark_failed(@, err, Now(nodes))]
            t   == transition(sm, "FAILED", 0, "")
        IN /\ r.raised \/ ~r.value
           /\ bk_raised' = (bk_raised \/ Threw(raws))
           /\ reset_calls' = Len(raws)
           /\ IF r.raised
              THEN /\ pc' = "raised"
                   /\ exc' = "BackendError"
                   /\ UNCHANGED <<nodes, sm, sm_call, result>>
              ELSE /\ nodes' = ns
                   /\ sm' = t.sm
                   /\ sm_call' = CallRec("transition", "FAILED", t)
                   /\ pc' = IF t.ok THEN "finish" ELSE "raised"
                   /\ exc' = IF t.ok THEN exc ELSE "IllegalTransitionError"
                   /\ result' = IF t.ok THEN _make_result(ns, ns[cur].error)
                                 ELSE result
    /\ n_primary' = 0
    /\ UNCHANGED <<mode, runs, pc2, frozen, abort, wd, cur, res_method, fail_counts,
                   rb_stack, rb_log,
                   last_call, audit, action_result>>

\* push that registers every step, reversible or not.
PushEveryStep(stack, rollback_action, source) ==
    Append(stack, [action |-> rollback_action, source |-> source])

\* RollbackManager.push
push(stack, rollback_action, source) ==
    IF rollback_action = NoRollback THEN stack
    ELSE Append(stack, [action |-> rollback_action, source |-> source])

\* _exec_node, lines 419-451: mark_success, register the rollback, return True.
Commit ==
    /\ nodes' = [nodes EXCEPT ![cur] = mark_success(@, res_method, Now(nodes))]
    /\ rb_stack' = push(rb_stack, ROLLBACK_MAP(nodes[cur].action), cur)
    /\ pc' = "loop"
    /\ cur' = 0
    /\ n_primary' = 0
    /\ res_method' = ""
    /\ bk_raised' = FALSE
    /\ reset_calls' = 0
    /\ audit' = step_end(audit)

\* _verify answers True: at once for the actions it skips, else from the
\* verifier (or its timeout fallback).
VerifyOk ==
    /\ pc = "verify"
    /\ Commit
    /\ UNCHANGED <<sm, sm_call, exc, mode, runs, pc2, frozen, abort, wd, fail_counts,
                   rb_log, exec_called, result,
                   last_call, action_result>>

\* _verify answers False; recover_verify_failure, lines 142-146: the re-check
\* after the longer wait passes.
ReverifyOk ==
    /\ pc = "verify"
    /\ nodes[cur].action \notin VerifySkipped
    /\ Commit
    /\ UNCHANGED <<sm, sm_call, exc, mode, runs, pc2, frozen, abort, wd, fail_counts,
                   rb_log, exec_called, result,
                   last_call, action_result>>

\* _verify answers False; recover_verify_failure, lines 148-150: the re-check
\* fails too and agent._execute_step_with_recovery is called. Orchestrator
\* has no such method, so AttributeError propagates out of run().
ReverifyFail ==
    /\ pc = "verify"
    /\ nodes[cur].action \notin VerifySkipped
    /\ pc' = "raised"
    /\ exc' = "AttributeError"
    /\ UNCHANGED <<sm, sm_call, mode, runs, pc2, frozen, abort, wd, nodes, node_locals,
                   fail_counts, rb_stack, rb_log, exec_called, result,
                   last_call, audit, bk_raised, reset_calls, action_result>>

(***************************************************************************)
(* core/rollback_manager.py                                                 *)
(***************************************************************************)
Reverse(seq) == [k \in 1..Len(seq) |-> seq[Len(seq) + 1 - k]]

\* What one rollback call can do: return True, return False, exceed the 8 s
\* wait_for, raise.
RollbackOutcomes == {"ok", "false", "timeout", "raised"}

\* RollbackManager._execute_rollback: every outcome ends in a result record.
_execute_rollback(entry, out) ==
    [action  |-> entry.action,
     source  |-> entry.source,
     success |-> (out = "ok"),
     error   |-> CASE out = "ok"      -> ""
                   [] out = "false"   -> "Rollback action returned False"
                   [] out = "timeout" -> "Rollback timeout"
                   [] OTHER           -> "executor error"]

\* rollback_all walking the stack oldest first.
RollbackAllForward(stack, outs) ==
    [k \in 1..Len(stack) |-> _execute_rollback(stack[k], outs[k])]

\* RollbackManager.rollback_all: reversed(self._stack), one result record per
\* entry; outs[k] is the outcome of the k-th rollback executed.
rollback_all(stack, outs) ==
    [k \in 1..Len(stack) |-> _execute_rollback(Reverse(stack)[k], outs[k])]

\* StepGraph.rollback_steps_after, lines 304-318: the loop over
\* reversed(self.nodes) from node i down, found being the flag of line 311.
RECURSIVE RollbackWalk(_, _, _, _)
RollbackWalk(ns, i, found, failed_step_id) ==
    IF i = 0 THEN <<>>
    ELSE LET f == found \/ ns[i].id = failed_step_id
             here == IF /\ f
                        /\ ns[i].status = "SUCCESS"
                        /\ ROLLBACK_MAP(ns[i].action) # NoRollback
                     THEN << [action |-> ROLLBACK_MAP(ns[i].action),
                              source |-> ns[i].id] >>
                     ELSE <<>>
         IN here \o RollbackWalk(ns, i - 1, f, failed_step_id)

\* StepGraph.rollback_steps_after
rollback_steps_after(ns, failed_step_id) ==
    RollbackWalk(ns, Len(ns), FALSE, failed_step_id)

\* RollbackManager.rollback_from: one result record per step returned by
\* rollback_steps_after; outs[k] is the outcome of the k-th rollback.
rollback_from(ns, failed_step_id, outs) ==
    LET steps == rollback_steps_after(ns, failed_step_id)
    IN [k \in 1..Len(steps) |-> _execute_rollback(steps[k], outs[k])]

(***************************************************************************)
(* core/orchestrator.py : run(), lines 229-283                              *)
(***************************************************************************)
\* The result is a success: SUCCESS is requested, the plan is cached, the
\* audit ends, the watchdog stops, force_reset(), return.
FinishSuccess ==
    /\ pc = "finish"
    /\ result.success
    /\ LET t == transition(sm, "SUCCESS", 0, "") IN
        IF t.ok
        THEN /\ audit' = end_task(audit, TRUE)
             /\ sm' = force_reset(t.sm)
             /\ sm_call' = [op |-> "force_reset", req |-> "INIT", raised |-> FALSE]
             /\ wd' = wd_stop(wd)
             /\ abort' = abort_after_stop(wd, abort)
             /\ pc' = "done"
             /\ exc' = exc
        ELSE /\ sm' = t.sm
             /\ sm_call' = CallRec("transition", "SUCCESS", t)
             /\ pc' = "raised"
             /\ exc' = "IllegalTransitionError"
             /\ UNCHANGED <<wd, abort, audit>>
    /\ UNCHANGED <<mode, runs, pc2, frozen, nodes, node_locals, fail_counts, rb_stack, rb_log,
                   exec_called, result,
                   last_call, bk_raised, reset_calls, action_result>>

\* The result is a failure: FAILED is requested unless already there, the
\* audit ends, rollback_all() runs, the watchdog stops, force_reset(), return.
FinishFailure ==
    /\ pc = "finish"
    /\ ~result.success
    /\ LET t == IF sm.state \notin {"FAILED", "CANCELLED"}
                THEN transition(sm, "FAILED", 0, "")
                ELSE [ok |-> TRUE, sm |-> sm]
       IN IF t.ok
          THEN /\ \E outs \in [1..Len(rb_stack) -> RollbackOutcomes] :
                     LET rb_results == rollback_all(rb_stack, outs)
                         ended == end_task(audit, FALSE)
                     IN /\ rb_log' = rb_results
                        /\ audit' = IF rb_results # <<>>
                                     THEN rollback_event(ended, rb_results)
                                     ELSE ended
               /\ rb_stack' = <<>>
               /\ exec_called' = exec_called \cup
                                   {rb_stack[k].action : k \in 1..Len(rb_stack)}
               /\ sm' = force_reset(t.sm)
               /\ sm_call' = [op |-> "force_reset", req |-> "INIT", raised |-> FALSE]
               /\ wd' = wd_stop(wd)
               /\ abort' = abort_after_stop(wd, abort)
               /\ pc' = "done"
               /\ exc' = exc
          ELSE /\ sm' = t.sm
               /\ sm_call' = CallRec("transition", "FAILED", t)
               /\ pc' = "raised"
               /\ exc' = "IllegalTransitionError"
               /\ UNCHANGED <<wd, abort, rb_stack, rb_log, exec_called, audit>>
    /\ UNCHANGED <<mode, runs, pc2, frozen, nodes, node_locals, fail_counts, result,
                   last_call, bk_raised, reset_calls, action_result>>

(***************************************************************************)
(* The engine: run() calls one after another, the watchdog beside them.     *)
(***************************************************************************)
\* The steps of a run() that has passed its first transition, for plans
\* drawn from PlanSet, and the heartbeat check running beside it.
RunSteps(PlanSet) ==
    \/ PlanFailed
    \/ \E p \in PlanSet : PlanDryRun(p)
    \/ \E p \in PlanSet : PlanBuild(p)
    \/ LoopDone
    \/ NodeAbort
    \/ NodeSkip
    \/ NodeStart
    \/ \E s \in 1..MaxCalls, e \in ExecFailures : RetryOk(s, e)
    \/ \E e \in ExecFailures : RetryExhausted(e)
    \/ ResetOk
    \/ ResetFail
    \/ VerifyOk
    \/ ReverifyOk
    \/ ReverifyFail
    \/ FinishSuccess
    \/ FinishFailure
    \/ Elapse
    \/ WdCheck
    \/ WdFire

Next ==
    \/ \E m \in ExecMode : RunStart(m)
    \/ RunSteps(Plans)

Spec == Init /\ [][Next]_vars

(***************************************************************************)
(* One run() of a short plan with every check of the watchdog thread.       *)
(***************************************************************************)
ShortPlans == {p \in Plans : Len(p) <= MaxShort}

NextWd ==
    \/ \E m \in ExecMode : RunStart(m)
    \/ RunSteps(ShortPlans)
    \/ \E ev \in ProcessEvents : WdProcessAlert(ev)
    \/ WdResourcePressure

SpecWd == Init /\ [][NextWd]_vars

(***************************************************************************)
(* Several run() calls of short plans, one after another, on one            *)
(* Orchestrator.                                                            *)
(***************************************************************************)
NextRuns ==
    \/ \E m \in ExecMode : RunStart(m)
    \/ \E m \in ExecMode : RunAgain(m)
    \/ RunSteps(ShortPlans)

SpecRuns == Init /\ [][NextRuns]_vars

(***************************************************************************)
(* One run() of a short plan and a second run() called while the first is   *)
(* suspended; the second call is followed up to its planner.                *)
(***************************************************************************)
NextConc ==
    \/ \E m \in ExecMode : RunStart(m)
    \/ RunWhileSuspended
    \/ RunSteps(ShortPlans)

SpecConc == Init /\ [][NextConc]_vars

(***************************************************************************)
(* A StepGraph built and driven by a caller through its public methods      *)
(* before run() is used; run() then builds its own graph of a short plan.   *)
(***************************************************************************)
graph_rest == <<sm, sm_call, pc, exc, mode, runs, pc2, abort, wd, n_primary,
                res_method, fail_counts, rb_stack, rb_log, exec_called, result,
                audit, bk_raised, reset_calls, action_result>>

GraphPlans ==
    {p \in Plans : /\ Len(p) <= MaxNodes
                   /\ \A i \in 1..Len(p) : p[i].action = "open_app"}

\* StepGraph.from_plan(plan)
CallFromPlan(p) ==
    /\ pc = "idle"
    /\ nodes = <<>>
    /\ nodes' = from_plan(p)
    /\ frozen' = FALSE
    /\ cur' = 0
    /\ last_call' = NoGraphCall
    /\ UNCHANGED graph_rest

\* graph.freeze()
CallFreeze ==
    /\ pc = "idle"
    /\ nodes # <<>>
    /\ frozen' = freeze(frozen)
    /\ UNCHANGED <<nodes, cur, graph_rest>>
    /\ last_call' = NoGraphCall

\* node.mark_running(); cur keeps the node it was last called on.
CallMarkRunning(i) ==
    /\ pc = "idle"
    /\ i \in 1..Len(nodes)
    /\ \/ nodes[i].status = "SUCCESS"
       \/ nodes[i].attempts < MaxMarks /\ Now(nodes) <= MaxStamp
    /\ nodes' = [nodes EXCEPT ![i] = mark_running(@, Now(nodes))]
    /\ cur' = i
    /\ UNCHANGED <<frozen, graph_rest>>
    /\ last_call' = NoGraphCall

\* node.mark_success(method_used)
CallMarkSuccess(i) ==
    /\ pc = "idle"
    /\ i \in 1..Len(nodes)
    /\ Now(nodes) <= MaxStamp
    /\ nodes' = [nodes EXCEPT ![i] = mark_success(@, nodes[i].method, Now(nodes))]
    /\ cur' = 0
    /\ UNCHANGED <<frozen, graph_rest>>
    /\ last_call' = NoGraphCall

\* node.mark_failed(error)
CallMarkFailed(i) ==
    /\ pc = "idle"
    /\ i \in 1..Len(nodes)
    /\ Now(nodes) <= MaxStamp
    /\ nodes' = [nodes EXCEPT ![i] = mark_failed(@, "error", Now(nodes))]
    /\ cur' = 0
    /\ UNCHANGED <<frozen, graph_rest>>
    /\ last_call' = NoGraphCall

\* node.mark_skipped(reason)
CallMarkSkipped(i) ==
    /\ pc = "idle"
    /\ i \in 1..Len(nodes)
    /\ nodes' = [nodes EXCEPT ![i] = mark_skipped(@, "reason")]
    /\ cur' = 0
    /\ UNCHANGED <<frozen, graph_rest>>
    /\ last_call' = NoGraphCall

\* graph.replan_from(failed_step_id), the id being one of the graph's or not.
CallReplanFrom(failed_step_id) ==
    /\ pc = "idle"
    /\ nodes # <<>>
    /\ nodes' = replan_from(nodes, failed_step_id)
    /\ frozen' = TRUE
    /\ cur' = 0
    /\ last_call' = [op |-> "replan_from", id |-> failed_step_id]
    /\ UNCHANGED graph_rest

NextGraph ==
    \/ \E p \in GraphPlans : CallFromPlan(p)
    \/ CallFreeze
    \/ \E i \in 1..MaxNodes : CallMarkRunning(i)
    \/ \E i \in 1..MaxNodes : CallMarkSuccess(i)
    \/ \E i \in 1..MaxNodes : CallMarkFailed(i)
    \/ \E i \in 1..MaxNodes : CallMarkSkipped(i)
    \/ \E id \in 1..(MaxNodes + 1) : CallReplanFrom(id)
    \/ \E m \in ExecMode : RunStart(m)
    \/ RunSteps(ShortPlans)

SpecGraph == Init /\ [][NextGraph]_vars

(***************************************************************************)
(* ActionResult values as the engine produces them.                         *)
(***************************************************************************)
result_rest == <<sm, sm_call, pc, exc, mode, runs, pc2, frozen, abort, wd,
                 nodes, node_locals, fail_counts, rb_stack, rb_log,
                 exec_called, result, last_call, audit, bk_raised,
                 reset_calls>>

\* The error texts a caller of ActionResult.fail passes.
FailTexts == {"", "Executor returned falsy result", "TimeoutError after"}

\* step_executor.execute(step), the backend answering raw (raising x).
CallExecute(step, raw, x) ==
    /\ action_result' = execute(step, raw, x)
    /\ UNCHANGED result_rest

\* ActionResult.from_exception(x, action, method)
CallFromException(x, step) ==
    /\ action_result' = from_exception(x, step.action, step.method)
    /\ UNCHANGED result_rest

\* ActionResult.fail(action, method, error) as the engine calls it: with
\* error_code and recovery_hint left out.
CallFail(step, error) ==
    /\ action_result' = fail(step.action, step.method, error, Omitted, Omitted)
    /\ UNCHANGED result_rest

\* ActionResult.ok(action, method)
CallOk(step) ==
    /\ action_result' = ok(step.action, step.method)
    /\ UNCHANGED result_rest

NextResult ==
    \/ \E step \in StepKinds : CallOk(step)
    \/ \E step \in StepKinds, raw \in BackendOutcomes,
          x \in [name : ExcNames, msg : ExcMessages] : CallExecute(step, raw, x)
    \/ \E x \in [name : ExcNames, msg : ExcMessages], step \in StepKinds :
          CallFromException(x, step)
    \/ \E step \in StepKinds, error \in FailTexts : CallFail(step, error)

SpecResult == Init /\ [][NextResult]_vars

(***************************************************************************)
(* RollbackManager.rollback_from called on a graph a caller has marked.     *)
(***************************************************************************)
\* rollback_mgr.rollback_from(failed_step_id, graph), the id being one of the
\* graph's or not; rb_log keeps the records it returned.
CallRollbackFrom(failed_step_id) ==
    /\ pc = "idle"
    /\ nodes # <<>>
    /\ LET steps == rollback_steps_after(nodes, failed_step_id)
       IN /\ \E outs \in [1..Len(steps) -> RollbackOutcomes] :
                rb_log' = rollback_from(nodes, failed_step_id, outs)
          /\ exec_called' = exec_called \cup
                              {steps[k].action : k \in 1..Len(steps)}
    /\ last_call' = [op |-> "rollback_from", id |-> failed_step_id]
    /\ UNCHANGED <<sm, sm_call, pc, exc, mode, runs, pc2, frozen, abort, wd,
                   nodes, node_locals, fail_counts, rb_stack, result, audit,
                   bk_raised, reset_calls, action_result>>

\* Plans of steps with a rollback action (open_app) and without one
\* (run_command).
PartialPlans ==
    {p \in Plans : /\ Len(p) <= MaxNodes
                   /\ \A i \in 1..Len(p) :
                         p[i].action \in {"open_app", "run_command"}}

NextPartial ==
    \/ \E p \in PartialPlans : CallFromPlan(p)
    \/ \E i \in 1..MaxNodes : CallMarkRunning(i)
    \/ \E i \in 1..MaxNodes : CallMarkSuccess(i)
    \/ \E i \in 1..MaxNodes : CallMarkFailed(i)
    \/ \E id \in 1..(MaxNodes + 1) : CallRollbackFrom(id)

SpecPartial == Init /\ [][NextPartial]_vars

(***************************************************************************)
(* Properties                                                               *)
(***************************************************************************)
\* run() is over: it returned a TaskResult, or an exception escaped it.
Finished == pc \in {"done", "raised"}

Nodes == 1..Len(nodes)

\* Node n gave up after retries, fallbacks and full_reset (_exec_node, 396-401).
Exhausted(n) ==
    /\ n.status = "FAILED"
    /\ n.error = _contextual_classify(n.action, n.method) \o ": all retries exhausted"

\* Node n was failed by the abort check of _exec_graph (302-307).
Aborted(n) == n.status = "FAILED" /\ n.error = "Watchdog abort"

\* C1: in LIVE mode, a run over N >= 1 steps in which every step succeeded on
\* its first attempt and was verified returns a TaskResult with success = true
\* and steps_done = steps_total = N, and leaves the state machine in INIT.
C1_HappyPath ==
    ( /\ Finished
      /\ mode = "live"
      /\ Len(nodes) >= 1
      /\ fail_counts = EmptyCounts
      /\ \A i \in Nodes : /\ nodes[i].status = "SUCCESS"
                          /\ nodes[i].method_used = nodes[i].method )
    => /\ pc = "done"
       /\ result.success
       /\ result.steps_done = Len(nodes)
       /\ result.steps_total = Len(nodes)
       /\ sm.state = "INIT"

C1_Witness ==
    /\ pc = "done"
    /\ mode = "live"
    /\ Len(nodes) = 3
    /\ fail_counts = EmptyCounts
    /\ \A i \in Nodes : /\ nodes[i].status = "SUCCESS"
                        /\ nodes[i].method_used = nodes[i].method
    /\ nodes[1].action = "focus_window"
    /\ nodes[2].action = "open_app"

\* C2: in DRY_RUN mode, a run whose plan was produced and validated calls no
\* executor and returns a TaskResult with success = true and steps_done = 0.
C2_DryRun ==
    ( /\ Finished
      /\ mode = "dry_run"
      /\ result.error # "Planning failed" )
    => /\ exec_called = {}
       /\ pc = "done"
       /\ result.success
       /\ result.steps_done = 0

\* The DRY_RUN run ended by IllegalTransitionError at PLANNED -> SUCCESS.
C2_Raised ==
    /\ pc = "raised"
    /\ mode = "dry_run"
    /\ exc = "IllegalTransitionError"
    /\ sm_call = [op |-> "transition", req |-> "SUCCESS", raised |-> TRUE]
    /\ sm.state = "PLANNED"
    /\ exec_called = {}
    /\ result = NoResult

\* C3: whenever run() is over, in any mode and with any outcome, the state
\* machine is in INIT.
C3_EndsInInit == Finished => sm.state = "INIT"

\* run() is over in SAFE_MODE with every node skipped, the machine still PLANNED.
C3_LeftPlanned ==
    /\ pc = "raised"
    /\ mode = "safe_mode"
    /\ Len(nodes) >= 1
    /\ \A i \in Nodes : nodes[i].status = "SKIPPED"
    /\ sm.state = "PLANNED"
    /\ wd.running

\* C4: in LIVE mode with a 3-step chain whose step 1 succeeded and whose
\* step 2 gave up after retries, fallbacks and full reset, step 3 was never
\* started, the compensation of step 1 (if it has one) was executed, and the
\* TaskResult has success = false and steps_done = 1.
C4_FailureStopsChain ==
    ( /\ Finished
      /\ mode = "live"
      /\ Len(nodes) = 3
      /\ nodes[1].status = "SUCCESS"
      /\ Exhausted(nodes[2]) )
    => /\ pc = "done"
       /\ nodes[3].status = "PENDING"
       /\ nodes[3].attempts = 0
       /\ ~result.success
       /\ result.steps_done = 1
       /\ rb_stack = <<>>
       /\ IF ROLLBACK_MAP(nodes[1].action) = NoRollback
          THEN rb_log = <<>>
          ELSE /\ Len(rb_log) = 1
               /\ rb_log[1].action = ROLLBACK_MAP(nodes[1].action)
               /\ rb_log[1].source = 1

C4_Witness ==
    /\ pc = "done"
    /\ mode = "live"
    /\ Len(nodes) = 3
    /\ nodes[1].status = "SUCCESS"
    /\ nodes[1].action = "open_app"
    /\ Exhausted(nodes[2])
    /\ Len(rb_log) = 1

\* C5: when run() is over and a step was started or checked and did not
\* succeed (it gave up after retries, fallback and full reset, its
\* verification recovery failed, or it was aborted), run() has returned a
\* TaskResult with success = false and a non-empty error, FAILED was the
\* state before the final reset, and no registered rollback is left
\* unexecuted.
C5_FailureReported ==
    ( /\ Finished
      /\ \E i \in Nodes : nodes[i].status \in {"RUNNING", "FAILED"} )
    => /\ pc = "done"
       /\ ~result.success
       /\ result.error # ""
       /\ rb_stack = <<>>
       /\ sm.history # <<>>
       /\ sm.history[Len(sm.history)].from = "FAILED"

\* A completed step has a rollback registered and the verification recovery of
\* a later step ended run() by AttributeError: nothing is rolled back, nothing
\* is returned.
C5_FailureLost ==
    /\ pc = "raised"
    /\ exc = "AttributeError"
    /\ rb_stack # <<>>
    /\ rb_log = <<>>
    /\ result = NoResult
    /\ sm.state = "VERIFYING"
    /\ \E i \in Nodes : nodes[i].status = "RUNNING" /\ nodes[i].action = "focus_window"

\* C6: a node failed by the abort check of _exec_graph comes with a failed
\* TaskResult whose error is the watchdog's heartbeat-timeout reason.
C6_AbortReason ==
    \A i \in Nodes :
        Aborted(nodes[i]) => /\ ~result.success
                             /\ result.error = HB_MSG

\* The abort check ran between the watchdog's two writes.
C6_ReasonMissing ==
    /\ pc = "finish"
    /\ wd.abort_requested
    /\ wd.abort_reason = ""
    /\ \E i \in Nodes : Aborted(nodes[i])
    /\ result.error = "Watchdog abort"

C9_PermissionDeniedNoRetry ==
    [][RetryExhausted("permission_denied") => n_primary' = 1]_vars

\* execute_with_retry has returned None after max_attempts level-1 calls.
C9_ThreeAttempts ==
    /\ pc = "reset"
    /\ nodes[cur].action = "run_command"
    /\ n_primary = max_attempts
    /\ FailCount(fail_counts, "run_command", "system") = max_attempts

\* C10: every call of transition() or transition_sync() either is accepted,
\* and then the request is in ALLOWED of the state it was made in and becomes
\* the state, or raises IllegalTransitionError and leaves the machine as it
\* was; a request other than INIT made in SUCCESS, FAILED or CANCELLED raises.
C10_TransitionsFollowTable ==
    [][ sm_call'.op \in {"transition", "transition_sync"} =>
          /\ ~sm_call'.raised => /\ sm_call'.req \in ALLOWED(sm.state)
                                 /\ sm'.state = sm_call'.req
          /\ sm_call'.raised => /\ sm' = sm
                                /\ exc' = "IllegalTransitionError"
          /\ (sm.state \in TERMINAL_STATES /\ sm_call'.req # "INIT")
                => sm_call'.raised ]_vars

C10_Witness ==
    /\ sm.state \in TERMINAL_STATES
    /\ sm_call.op = "transition_sync"
    /\ sm_call.req \notin {"INIT", sm.state}
    /\ sm_call.raised
    /\ Len(sm.history) >= 2

(***************************************************************************)
(* C12: during run() a node is started (marked RUNNING, handed to an       *)
(* executor) only when every predecessor is SUCCESS or SKIPPED; in a chain *)
(* no step has begun while an earlier step is PENDING, RUNNING or FAILED.  *)
(***************************************************************************)
Started(n) == n.attempts > 0 \/ n.status = "RUNNING"

C12_StartsAfterPredecessors ==
    \A i \in Nodes :
        Started(nodes[i]) =>
            /\ \A k \in 1..Len(nodes[i].depends_on) :
                  \A j \in Nodes :
                      nodes[j].id = nodes[i].depends_on[k]
                          => nodes[j].status \in {"SUCCESS", "SKIPPED"}
            /\ \A j \in 1..(i - 1) : nodes[j].status \notin {"PENDING", "RUNNING", "FAILED"}

\* The third node of a chain is running after one predecessor succeeded and
\* the other was skipped by the mode gate.
C12_Witness ==
    /\ pc = "exec"
    /\ cur = 3
    /\ nodes[3].status = "RUNNING"
    /\ nodes[1].status = "SKIPPED"
    /\ nodes[2].status = "SUCCESS"

(***************************************************************************)
(* C13: rollback_all() executes every registered entry exactly once, in    *)
(* strict reverse order of registration, goes on after an entry fails,     *)
(* times out or raises, returns one result record per entry and leaves the *)
(* stack empty.                                                            *)
(***************************************************************************)
\* The nodes whose rollback was registered, in registration order.
Registered ==
    SelectSeq([i \in 1..Len(nodes) |-> i],
              LAMBDA i : nodes[i].status = "SUCCESS"
                         /\ ROLLBACK_MAP(nodes[i].action) # NoRollback)

C13_RollbackReverseOrder ==
    /\ pc \in {"loop", "exec", "reset", "verify", "finish"} =>
          /\ Len(rb_stack) = Len(Registered)
          /\ \A k \in 1..Len(rb_stack) :
                rb_stack[k] = [action |-> ROLLBACK_MAP(nodes[Registered[k]].action),
                               source |-> Registered[k]]
    /\ (pc = "done" /\ ~result.success) =>
          /\ rb_stack = <<>>
          /\ Len(rb_log) = Len(Registered)
          /\ \A k \in 1..Len(rb_log) :
                /\ rb_log[k].source = Registered[Len(Registered) + 1 - k]
                /\ rb_log[k].action = ROLLBACK_MAP(nodes[rb_log[k].source].action)

\* Two rollbacks were registered; the first one executed timed out and the
\* second one still ran and succeeded.
C13_Witness ==
    /\ pc = "done"
    /\ ~result.success
    /\ Len(rb_log) = 2
    /\ rb_log[1].error = "Rollback timeout"
    /\ rb_log[2].success
    /\ rb_log[1].source > rb_log[2].source

(***************************************************************************)
(* C16: apart from the mode gate's PENDING -> SKIPPED, every status change *)
(* applied to a node during run() is PENDING -> RUNNING, RUNNING -> SUCCESS*)
(* or RUNNING -> FAILED; no node becomes SUCCESS or FAILED without having  *)
(* been RUNNING first, the watchdog-abort path included.                   *)
(***************************************************************************)
NodeStatusChanges ==
    { <<"PENDING", "SKIPPED">>, <<"PENDING", "RUNNING">>,
      <<"RUNNING", "SUCCESS">>, <<"RUNNING", "FAILED">> }

C16_StatusChanges ==
    [][ Len(nodes') = Len(nodes) =>
          \A i \in 1..Len(nodes) :
              nodes'[i].status # nodes[i].status =>
                  <<nodes[i].status, nodes'[i].status>> \in NodeStatusChanges ]_vars

\* _exec_graph saw the abort flag and failed a node that never ran.
C16_FailedNeverRunning ==
    \E i \in Nodes :
        /\ nodes[i].status = "FAILED"
        /\ nodes[i].attempts = 0
        /\ nodes[i].error = "Watchdog abort"

(***************************************************************************)
(* C18: after the declared method m of an action is exhausted the fallback *)
(* chain is exactly the action's static priority list with m removed,      *)
(* ordered so that methods with more session failures come later (ties     *)
(* keep the static order), and the fallback phase invokes no method whose  *)
(* session failure count for that action is 3 or more.                     *)
(***************************************************************************)
\* Position of method x in sequence seq (0: absent).
PosIn(seq, x) ==
    IF \E k \in 1..Len(seq) : seq[k] = x
    THEN CHOOSE k \in 1..Len(seq) : seq[k] = x
    ELSE 0

\* chain is the priority list of action less method m, in the order the
\* claim states, for the counters fc.
IsFallbackOrder(chain, fc, action, m) ==
    LET static == METHOD_PRIORITY(action) IN
    /\ {chain[k] : k \in 1..Len(chain)} = {static[k] : k \in 1..Len(static)} \ {m}
    /\ \A j, k \in 1..Len(chain) : j # k => chain[j] # chain[k]
    /\ \A j, k \in 1..Len(chain) :
          j < k =>
            \/ FailCount(fc, action, chain[j]) < FailCount(fc, action, chain[k])
            \/ /\ FailCount(fc, action, chain[j]) = FailCount(fc, action, chain[k])
               /\ PosIn(static, chain[j]) < PosIn(static, chain[k])

HeartbeatTimeoutStep ==
    \/ wd.age > HEARTBEAT_TIMEOUT_S /\ wd.pc = "idle" /\ wd'.pc = "fired"
    \/ wd.pc = "fired"

C20_AbortOnlyOnHeartbeat ==
    [][ /\ (~abort /\ abort') => HeartbeatTimeoutStep
        /\ (~wd.abort_requested /\ wd'.abort_requested) => HeartbeatTimeoutStep
        /\ (pc = "loop" /\ \E i \in 1..Len(nodes) :
                nodes[i].status = "PENDING" /\ nodes'[i].status = "FAILED")
             => wd.abort_reason = HB_MSG \/ wd.pc = "fired" ]_vars

\* A process alert was fired during a run that went on to succeed with both
\* flags still false.
C20_Witness ==
    /\ pc = "done"
    /\ result.success
    /\ result.steps_done = 1
    /\ wd.last_event \in ProcessEvents
    /\ ~abort
    /\ ~wd.abort_requested

(***************************************************************************)
(* C19: the per-(action, method) failure counters cover the current task   *)
(* only: at the start of every run() they are empty, so failures recorded  *)
(* during one run() never reorder or demote a method in a later run() on   *)
(* the same Orchestrator.                                                  *)
(***************************************************************************)
\* pc = "plan": run() has made its first transition and awaits the planner;
\* no executor was called in this run yet.
C19_CountersPerRun ==
    pc = "plan" => fail_counts = EmptyCounts

\* The second run() starts with accessibility already demoted for
\* focus_window by the three failures of the first run().
C19_CountersCarried ==
    /\ runs = 2
    /\ pc = "plan"
    /\ FailCount(fail_counts, "focus_window", "accessibility")
          >= FAILURE_DEMOTION_THRESHOLD

(***************************************************************************)
(* C11: at most one run() is active on an Orchestrator: a second run()     *)
(* invoked while a first run() is in progress (in PLANNED, EXECUTING,      *)
(* VERIFYING or RECOVERING) is stopped at its INIT -> PLANNED transition   *)
(* and never proceeds to plan or execute steps beside the first.           *)
(***************************************************************************)
C11_SecondRunStopped ==
    pc2 \in {"idle", "raised"}

\* The first run() is suspended in full_reset (the state was RECOVERING) and
\* the second run() has passed its transition and awaits its planner.
C11_TwoRunsActive ==
    /\ pc = "reset"
    /\ pc2 = "plan"
    /\ sm.state = "PLANNED"
    /\ sm.prev = "RECOVERING"

(***************************************************************************)
(* C14: graph construction fails with GraphBuildError for an empty step    *)
(* list, for any node that depends on an id not present in the graph and   *)
(* for any set of dependency edges that contains a cycle; it accepts every *)
(* non-empty acyclic graph whose dependency ids all exist.                 *)
(***************************************************************************)
\* Some node of ns depends on an id that no node of ns has.
DependsOnMissingId(ns) ==
    \E i \in 1..Len(ns) :
        \E k \in 1..Len(ns[i].depends_on) :
            \A j \in 1..Len(ns) : ns[j].id # ns[i].depends_on[k]

\* The dependency edges of ns: <<i, j>> when node i depends on node j.
Edges(ns) ==
    {e \in (1..Len(ns)) \X (1..Len(ns)) :
        \E k \in 1..Len(ns[e[1]].depends_on) :
            ns[e[1]].depends_on[k] = ns[e[2]].id}

Compose(P, R) ==
    {<<x[1][1], x[2][2]>> : x \in {y \in P \X R : y[1][2] = y[2][1]}}

\* Pairs joined by a path of 1..n edges of R.
RECURSIVE PathsUpTo(_, _)
PathsUpTo(R, n) ==
    IF n <= 1 THEN R
    ELSE PathsUpTo(R, n - 1) \cup Compose(PathsUpTo(R, n - 1), R)

HasCycle(ns) ==
    \E i \in 1..Len(ns) : <<i, i>> \in PathsUpTo(Edges(ns), Len(ns))

\* A graph was handed to the constructor (nodes, or the error of the empty
\* list, shows it).
C14_BuildRejectsExactly ==
    (pc = "idle" /\ runs = 0 /\ (nodes # <<>> \/ exc # "")) =>
        ( exc = "GraphBuildError"
            <=> (nodes = <<>> \/ DependsOnMissingId(nodes) \/ HasCycle(nodes)) )

\* Three nodes wired in a ring, every id known: refused.
C14_Witness ==
    /\ exc = "GraphBuildError"
    /\ Len(nodes) = 3
    /\ nodes[1].depends_on = <<2>>
    /\ nodes[2].depends_on = <<3>>
    /\ nodes[3].depends_on = <<1>>

(***************************************************************************)
(* C15: mark_running() on a node whose status is SUCCESS is a no-op:       *)
(* status stays SUCCESS and attempts, started_at, finished_at and          *)
(* method_used are unchanged, however many times it is called.             *)
(***************************************************************************)
\* A caller's mark_running on node i is the step in which cur becomes (or
\* stays) i while no run() is in progress.
C15_MarkRunningIdempotent ==
    [][ \A i \in 1..Len(nodes) :
          (pc = "idle" /\ pc' = "idle" /\ cur' = i /\ nodes[i].status = "SUCCESS")
            => /\ Len(nodes') = Len(nodes)
               /\ nodes'[i].status = "SUCCESS"
               /\ nodes'[i].attempts = nodes[i].attempts
               /\ nodes'[i].started_at = nodes[i].started_at
               /\ nodes'[i].finished_at = nodes[i].finished_at
               /\ nodes'[i].method_used = nodes[i].method_used ]_vars

\* mark_running was just called on node 1, which had run once and succeeded,
\* after node 2 had been started later: node 1 is as it was.
C15_Witness ==
    /\ pc = "idle"
    /\ cur = 1
    /\ Len(nodes) = 2
    /\ nodes[1].status = "SUCCESS"
    /\ nodes[1].attempts = 1
    /\ nodes[1].started_at = 1
    /\ nodes[1].finished_at = 2
    /\ nodes[1].method_used = "system"
    /\ nodes[2].started_at = 3

(***************************************************************************)
(* C17: once freeze() has been called on a graph, the set of nodes, their  *)
(* ids and their dependency edges are never changed by any later operation *)
(* of the graph or of the orchestrator (replan_from included); only        *)
(* per-node runtime fields change, and the graph is frozen in every state  *)
(* in which steps are being executed.                                      *)
(***************************************************************************)
Structure(ns) == [i \in 1..Len(ns) |-> <<ns[i].id, ns[i].depends_on>>]

\* frozen falls back to FALSE only when run() drops the graph for a new one.
C17_FrozenStructure ==
    [][ /\ (frozen /\ frozen') => Structure(nodes') = Structure(nodes)
        /\ (frozen /\ ~frozen') => nodes' = <<>>
        /\ pc' \in {"loop", "exec", "reset", "verify"} => frozen' ]_vars

\* A frozen two-node graph after replan_from(2): node 2 had run once and is
\* PENDING again with its timestamps cleared, node 1 is untouched.
C17_Witness ==
    /\ pc = "idle"
    /\ frozen
    /\ Len(nodes) = 2
    /\ nodes[1].status = "SUCCESS"
    /\ nodes[1].finished_at # NoStamp
    /\ nodes[2].status = "PENDING"
    /\ nodes[2].attempts = 1
    /\ nodes[2].started_at = NoStamp
    /\ nodes[2].depends_on = <<1>>

\* The abort flag of line 303, as the orchestrator and the watchdog hold it.
AbortFlag == abort \/ wd.abort_requested

InFlightPcs == {"exec", "reset", "verify"}

\* C21: the abort flag is consulted before each new node is started and
\* nowhere else. Once it is set no node moves to RUNNING and no executor call
\* is made for a new node; the step that sets the flag while a node is in
\* flight leaves the run where it is, and the in-flight node can still go on:
\* its executor call, its reset and its verification stay enabled.
C21_AbortBeforeEachNode ==
    [][ /\ AbortFlag /\ pc \in {"loop"} \cup InFlightPcs =>
              /\ \A i \in 1..Len(nodes') :
                    nodes'[i].status = "RUNNING" =>
                        i \in Nodes /\ nodes[i].status = "RUNNING"
              /\ pc = "loop" => exec_called' = exec_called
        /\ pc \in InFlightPcs /\ ~AbortFlag /\ AbortFlag' =>
              UNCHANGED <<pc, exc, nodes, node_locals, result>>
        /\ AbortFlag /\ pc = "exec" =>
              ENABLED (\E s \in 1..MaxCalls, e \in ExecFailures : RetryOk(s, e))
        /\ AbortFlag /\ pc = "reset" => ENABLED ResetOk
        /\ AbortFlag /\ pc = "verify" => ENABLED VerifyOk
      ]_vars

\* The flag was set while node 1 was in flight (no tick has passed since the
\* heartbeat of its executor call), node 1 went on to SUCCESS and node 2 has
\* not been started.
C21_Witness ==
    /\ pc = "loop"
    /\ abort
    /\ wd.age = 0
    /\ Len(nodes) >= 2
    /\ nodes[1].status = "SUCCESS"
    /\ nodes[2].status = "PENDING"

\* C22: when the verification of a step fails and the re-check after the
\* longer wait fails too, the step is re-run and its node ends SUCCESS or
\* FAILED; run() goes on to return a TaskResult, it does not raise.
C22_VerifyRecoveryEnds ==
    [][ ReverifyFail =>
            /\ nodes'[cur].status \in {"SUCCESS", "FAILED"}
            /\ pc' # "raised" ]_vars

\* The first step's verification and its re-check failed: the node is still
\* RUNNING, run() has raised AttributeError and there is no TaskResult.
C22_NodeLeftRunning ==
    /\ pc = "raised"
    /\ exc = "AttributeError"
    /\ cur = 1
    /\ nodes[1].status = "RUNNING"
    /\ nodes[1].finished_at = NoStamp
    /\ result = NoResult
    /\ audit._active

\* The exceptions a backend call raises in this model.
BackendExceptions == [name : ExcNames, msg : ExcMessages]

\* C23: an exception or a timeout of an action backend, while a step, a
\* recovery attempt or a rollback is executing, becomes a failed attempt: a
\* falsy ActionResult from StepExecutor.execute, a failed attempt of
\* full_reset, a rollback record with success = false. It is never the
\* exception that ends run().
C23_BackendErrorsContained ==
    /\ exc # "BackendError"
    /\ pc = "raised" => exc \in {"IllegalTransitionError", "AttributeError"}
    /\ pc = "exec" =>
          \A raw \in {"timeout", "raised"}, x \in BackendExceptions :
              ~execute(nodes[cur], raw, x).success
    /\ pc = "reset" =>
          \A raws \in ResetRaws :
              LET r == full_reset(raws)
              IN /\ ~r.raised
                 /\ r.value <=> raws[Len(raws)] = "truthy"
    /\ \A k \in 1..Len(rb_log) :
          rb_log[k].error \in {"Rollback timeout", "executor error"} =>
              ~rb_log[k].success

\* A backend call for the failing node raised or timed out, one rollback
\* raised and another timed out, and run() has returned a failed TaskResult.
C23_Witness ==
    /\ pc = "done"
    /\ exc = ""
    /\ bk_raised
    /\ ~result.success
    /\ \E i \in Nodes : Exhausted(nodes[i])
    /\ \E k \in 1..Len(rb_log) : rb_log[k].error = "executor error"
    /\ \E k \in 1..Len(rb_log) : rb_log[k].error = "Rollback timeout"

\* C24: in a run() where planning succeeded and every step succeeded, the
\* state machine is back in INIT through validated transitions only:
\* force_reset() has not been called.
C24_NoForceResetOnSuccess ==
    ( /\ pc = "done"
      /\ result.success
      /\ nodes # <<>>
      /\ \A i \in Nodes : nodes[i].status = "SUCCESS" )
    => /\ sm.state = "INIT"
       /\ sm_call.op # "force_reset"
       /\ \A k \in 1..Len(sm.history) : sm.history[k].action # "FORCE_RESET"

\* Every step of a two-step LIVE run succeeded, and the state machine was
\* brought from SUCCESS back to INIT by force_reset().
C24_ForceResetUsed ==
    /\ pc = "done"
    /\ mode = "live"
    /\ result.success
    /\ Len(nodes) = 2
    /\ \A i \in Nodes : nodes[i].status = "SUCCESS"
    /\ sm.state = "INIT"
    /\ sm_call = [op |-> "force_reset", req |-> "INIT", raised |-> FALSE]
    /\ sm.history[Len(sm.history)] = HistEntry("SUCCESS", "INIT", "FORCE_RESET")

\* C25: when run() has returned a failed TaskResult (planning failure, step
\* failure, verification failure or watchdog abort), audit.end_task(success =
\* false) was performed exactly once in that run: one audit log with success =
\* false and one crash dump are written, and the audit is closed.
C25_FailedRunAudited ==
    ( pc = "done" /\ ~result.success )
    => /\ Len(audit.saved) = 1
       /\ ~audit.saved[1].success
       /\ audit.crash_dumps = 1
       /\ ~audit._active

\* run() has returned "Planning failed": end_task() was never called, no log
\* and no crash dump were written and the audit is still open.
C25_PlanningFailureUnaudited ==
    /\ pc = "done"
    /\ ~result.success
    /\ result.error = "Planning failed"
    /\ audit.saved = <<>>
    /\ audit.crash_dumps = 0
    /\ audit._active
    /\ audit._events = <<"task_start">>

\* The event names of an audit event list.
EventsOf(events) == { events[k] : k \in 1..Len(events) }

\* C26: when run() has returned after executing rollbacks, a rollback event is
\* in the audit event list of the run and in the audit log written for it,
\* beside the task start and end and the step start and end events.
C26_RollbackAudited ==
    ( pc = "done" /\ rb_log # <<>> )
    => /\ "rollback" \in EventsOf(audit._events)
       /\ Len(audit.saved) = 1
       /\ {"task_start", "task_end", "step_start", "step_end", "rollback"}
             \subseteq EventsOf(audit.saved[1].events)

\* Two rollbacks were executed for a failed run: the log written for the run
\* and the event list in memory hold the task and step events and no rollback
\* event.
C26_RollbackEventDropped ==
    /\ pc = "done"
    /\ ~result.success
    /\ Len(rb_log) = 2
    /\ Len(audit.saved) = 1
    /\ audit._events = audit.saved[1].events
    /\ {"task_start", "task_end", "step_start", "step_end"}
          \subseteq EventsOf(audit._events)
    /\ "rollback" \notin EventsOf(audit._events)

\* The position in plan order of the node with this id, 0 when there is none.
Position(ns, id) ==
    IF \E i \in 1..Len(ns) : ns[i].id = id
    THEN CHOOSE i \in 1..Len(ns) : ns[i].id = id
    ELSE 0

\* C27: the compensating actions rollback_from(failed_id) has executed are
\* all for steps positioned after failed_id in the plan, which reached
\* SUCCESS and have a rollback action; none is for a step positioned before
\* failed_id.
C27_RollsBackLaterStepsOnly ==
    last_call.op = "rollback_from" =>
        \A k \in 1..Len(rb_log) :
            LET f == Position(nodes, last_call.id)
                i == Position(nodes, rb_log[k].source)
            IN /\ f > 0
               /\ i > f
               /\ nodes[i].status = "SUCCESS"
               /\ rb_log[k].action = ROLLBACK_MAP(nodes[i].action)

\* rollback_from(2) on a plan of two open_app steps, the first SUCCESS and
\* the second FAILED: the one rollback executed is for step 1.
C27_EarlierStepRolledBack ==
    /\ last_call = [op |-> "rollback_from", id |-> 2]
    /\ Len(nodes) = 2
    /\ nodes[1].status = "SUCCESS"
    /\ nodes[2].status = "FAILED"
    /\ Len(rb_log) = 1
    /\ rb_log[1].source = 1
    /\ rb_log[1].action = "close_window"
    /\ rb_log[1].success

\* The graph with the status of node j replaced by st (j = 0: the graph).
WithStatus(ns, j, st) ==
    IF j = 0 THEN ns ELSE [ns EXCEPT ![j].status = st]

ReplanStep == pc = "idle" /\ pc' = "idle" /\ last_call'.op = "replan_from"

\* C30: replan_from(id) leaves the node with that id and every later node in
\* plan order PENDING with error and timestamps cleared, leaves every earlier
\* node as it was, and leaves the graph frozen; when id matches no node, no
\* node is changed.
C30_ReplanFrom ==
    [][ ReplanStep =>
          LET f == Position(nodes, last_call'.id)
          IN /\ frozen'
             /\ Len(nodes') = Len(nodes)
             /\ \A i \in Nodes :
                   IF f > 0 /\ i >= f
                   THEN /\ nodes'[i].status = "PENDING"
                        /\ nodes'[i].error = ""
                        /\ nodes'[i].started_at = NoStamp
                        /\ nodes'[i].finished_at = NoStamp
                   ELSE nodes'[i] = nodes[i]
      ]_vars

\* replan_from(1) has returned on a graph whose two nodes had both been run:
\* both are PENDING again, their attempts kept, and the graph is frozen.
C30_Witness ==
    /\ last_call = [op |-> "replan_from", id |-> 1]
    /\ frozen
    /\ Len(nodes) = 2
    /\ \A i \in Nodes : /\ nodes[i].status = "PENDING"
                        /\ nodes[i].attempts > 0
                        /\ nodes[i].error = ""
                        /\ nodes[i].started_at = NoStamp

\* C28: every ActionResult with success = false that ActionResult.fail,
\* ActionResult.from_exception or StepExecutor.execute has produced carries
\* an error code of ECode other than NONE.
C28_FailureHasErrorCode ==
    ~action_result.success =>
        /\ action_result.by \in {"fail", "from_exception", "execute"}
        /\ action_result.error_code \in ECode
        /\ action_result.error_code # ECode_NONE

\* StepExecutor.execute has returned the failure of a backend that raised an
\* exception with an empty message: the code is UNKNOWN.
C28_Witness ==
    /\ action_result.by = "execute"
    /\ ~action_result.success
    /\ action_result.error = ""
    /\ action_result.action = "run_command"
    /\ action_result.error_code = "unknown"
    /\ action_result.recovery_hint = "full_reset"

\* C31: in the fallback phase of execute_with_retry each candidate method is
\* invoked at most once and in chain order; the first one that succeeds ends
\* the call with that result, no later method being invoked; one step costs
\* at most max_attempts + (length of the fallback chain) + 1 executor calls.
\* Checked for the node in hand against every answer of the executor (call
\* number s the first to succeed, s = 0: none).
C31_FallbacksOnceInOrder ==
    pc = "exec" =>
        \A s \in 0..MaxCalls, e \in ExecFailures :
            LET n == nodes[cur]
                r == execute_with_retry(fail_counts, n.action, n.method, s, e)
            IN /\ \A j, k \in 1..Len(r.tried) :
                     j < k => /\ r.tried[j].method # r.tried[k].method
                              /\ 0 < PosIn(r.chain, r.tried[j].method)
                              /\ PosIn(r.chain, r.tried[j].method)
                                   < PosIn(r.chain, r.tried[k].method)
               /\ \A k \in 1..Len(r.tried) : PosIn(r.chain, r.tried[k].method) > 0
               /\ (r.ok /\ s > max_attempts /\ ~r.last_resort) =>
                     /\ r.tried # <<>>
                     /\ r.tried[Len(r.tried)].method = r.method
                     /\ r.calls = s
                     /\ r.calls = max_attempts + Len(r.tried)
               /\ r.calls <= max_attempts + Len(r.chain) + 1

\* open_app declared with method system: the three level-1 attempts and the
\* fallback accessibility failed, and the second fallback, cv, returned the
\* result.
C31_Witness ==
    /\ pc = "verify"
    /\ nodes[cur].action = "open_app"
    /\ nodes[cur].method = "system"
    /\ n_primary = max_attempts
    /\ res_method = "cv"
    /\ FailCount(fail_counts, "open_app", "system") = max_attempts
    /\ FailCount(fail_counts, "open_app", "accessibility") = 1
    /\ FailCount(fail_counts, "open_app", "cv") = 0

\* The actions the claim calls single-method.
SoleMethodActions ==
    {"run_command", "set_volume", "set_brightness", "open_terminal"}

\* C32: when the declared method and every fallback invoked have failed,
\* execute_with_retry makes exactly one more executor call, through method
\* system, if the action is run_command, set_volume, set_brightness or
\* open_terminal, and none for any other action, before it returns None; a
\* result that comes from that extra call carries method system.
C32_LastResort ==
    pc = "exec" =>
        \A s \in 0..MaxCalls, e \in ExecFailures :
            LET n == nodes[cur]
                r == execute_with_retry(fail_counts, n.action, n.method, s, e)
                extra == IF n.action \in SoleMethodActions THEN 1 ELSE 0
            IN /\ r.last_resort => /\ n.action \in SoleMethodActions
                                   /\ r.calls = max_attempts + Len(r.tried) + 1
               /\ ~r.ok =>
                     /\ r.last_resort <=> n.action \in SoleMethodActions
                     /\ r.calls = max_attempts + Len(r.tried) + extra
               /\ (r.ok /\ r.last_resort) => r.method = "system" /\ r.calls = s

\* run_command: the three level-1 attempts failed, there is no fallback, and
\* the fourth call, the last resort, returned the result.
C32_Witness ==
    /\ pc = "verify"
    /\ nodes[cur].action = "run_command"
    /\ n_primary = max_attempts
    /\ res_method = "system"
    /\ FailCount(fail_counts, "run_command", "system") = max_attempts
    /\ nodes[cur].status = "RUNNING"

(***************************************************************************)
(* Several run() calls, one after another, of plans of reversible and      *)
(* irreversible steps.                                                      *)
(***************************************************************************)
\* Plans of up to MaxNodes steps, each reversible (open_app) or not
\* (focus_window).
MixedPlans ==
    {p \in Plans : /\ Len(p) <= MaxNodes
                   /\ \A i \in 1..Len(p) :
                         /\ p[i].action \in {"open_app", "focus_window"}
                         /\ p[i].method = "system"}

\* Plans of reversible steps, and the plan of one step that has no rollback
\* action.
RollbackPlans ==
    GraphPlans \cup {p \in MixedPlans : Len(p) = 1}

NextRollback ==
    \/ \E m \in ExecMode : RunStart(m)
    \/ \E m \in ExecMode : RunAgain(m)
    \/ RunSteps(RollbackPlans)

SpecRollback == Init /\ [][NextRollback]_vars

\* The nodes of the current graph that are SUCCESS and have a rollback action.
Reversible(ns) ==
    {i \in 1..Len(ns) : /\ ns[i].status = "SUCCESS"
                        /\ ROLLBACK_MAP(ns[i].action) # NoRollback}

\* seq holds one record per reversible SUCCESS node of ns, each naming the
\* node's rollback action.
OnePerReversible(seq, ns) ==
    /\ Len(seq) = Cardinality(Reversible(ns))
    /\ \A i \in Reversible(ns) :
          \E k \in 1..Len(seq) :
              /\ seq[k].source = i
              /\ seq[k].action = ROLLBACK_MAP(ns[i].action)

(***************************************************************************)
(* C33: a rollback entry is registered exactly when a node with a rollback *)
(* action reaches SUCCESS, one entry per such node, in completion order;   *)
(* registered entries are executed only when the result of the run is a    *)
(* failure, so the compensating actions of a successful run are executed   *)
(* neither in that run nor in a later run().                               *)
(***************************************************************************)
\* Until rollback_all() empties it, the stack of a run() holds exactly one
\* entry per reversible SUCCESS node of that run's graph, ordered by the time
\* the nodes finished; the rollbacks executed by a run() are those of its own
\* reversible SUCCESS nodes, and only a failed run() executes any.
C33_RollbackRegistration ==
    /\ (pc \notin {"idle", "done"} \/ (pc = "done" /\ result.success)) =>
          /\ OnePerReversible(rb_stack, nodes)
          /\ \A j, k \in 1..Len(rb_stack) :
                j < k => nodes[rb_stack[j].source].finished_at
                            < nodes[rb_stack[k].source].finished_at
    /\ rb_log # <<>> =>
          /\ pc = "done"
          /\ ~result.success
          /\ OnePerReversible(rb_log, nodes)
    /\ (pc = "done" /\ result.success) => rb_log = <<>>

\* A second run() on the same Orchestrator has failed at its second node and
\* rolled back one step, its own first node.
C33_Witness ==
    /\ runs = 2
    /\ pc = "done"
    /\ ~result.success
    /\ Len(nodes) = 2
    /\ nodes[1].status = "SUCCESS"
    /\ nodes[1].action = "open_app"
    /\ nodes[2].status = "FAILED"
    /\ Len(rb_log) = 1
    /\ rb_log[1].source = 1
    /\ rb_log[1].action = "close_window"

(***************************************************************************)
(* C34: after execute_with_retry has given up on a step, the full-reset    *)
(* recovery re-runs that step exactly once more through the executor       *)
(* chosen for its action, and the node is marked FAILED if that single     *)
(* attempt fails.                                                          *)
(***************************************************************************)
\* Once full_reset() has returned for a node it has called the executor
\* exactly once, and a node still under way after it was recovered by that
\* one call.
C34_SinglePostResetAttempt ==
    /\ reset_calls <= 1
    /\ (pc = "verify" /\ res_method = "recovery") => reset_calls = 1
    /\ (pc = "finish" /\ cur # 0 /\ reset_calls > 0) =>
          /\ reset_calls = 1
          /\ nodes[cur].status = "FAILED"

\* The first post-reset attempt failed, the node was not marked FAILED, and
\* a second post-reset attempt recovered it: the node goes on to verification.
C34_SecondResetAttempt ==
    /\ pc = "verify"
    /\ res_method = "recovery"
    /\ reset_calls = RESET_ATTEMPTS
    /\ nodes[cur].status = "RUNNING"
    /\ sm.state = "VERIFYING"

(***************************************************************************)
(* C35: for every validated plan, every execution mode and every           *)
(* combination of step, recovery and verification outcomes, each           *)
(* transition run() requests is permitted by the ALLOWED table from the    *)
(* state the machine is then in, so run() never raises                     *)
(* IllegalTransitionError, also when every node of a SAFE_MODE plan is     *)
(* skipped.                                                                *)
(***************************************************************************)
\* No transition requested by run() is rejected, and IllegalTransitionError
\* never leaves run().
C35_NoIllegalTransition ==
    /\ ~sm_call.raised
    /\ exc # "IllegalTransitionError"

\* SAFE_MODE, a two-step plan of blocked actions: both nodes were skipped,
\* the result is a success, and SUCCESS requested from PLANNED was rejected.
C35_AllSkippedRejected ==
    /\ mode = "safe_mode"
    /\ Len(nodes) = 2
    /\ \A i \in Nodes : nodes[i].status = "SKIPPED" /\ nodes[i].attempts = 0
    /\ result.success
    /\ result.steps_done = 2
    /\ sm_call = [op |-> "transition", req |-> "SUCCESS", raised |-> TRUE]
    /\ exc = "IllegalTransitionError"
    /\ exec_called = {}

(***************************************************************************)
(* One run() of a plan of reversible steps and a second run() called while *)
(* the first is suspended; the second call is followed up to its planner.  *)
(***************************************************************************)
NextDisturb ==
    \/ \E m \in ExecMode : RunStart(m)
    \/ RunWhileSuspended
    \/ RunSteps(MixedPlans)

SpecDisturb == Init /\ [][NextDisturb]_vars

\* The transitions the suspended run() requests next when it resumes from
\* position p: after the planner (lines 192, 205, 233 and 341), after
\* execute_with_retry (394, 408), after full_reset (400, 408) and after
\* _verify (341 for the next node, 233, 308).
NextRequests(p) ==
    CASE p = "plan"   -> {"FAILED", "SUCCESS", "EXECUTING"}
      [] p = "exec"   -> {"RECOVERING", "VERIFYING"}
      [] p = "reset"  -> {"VERIFYING", "FAILED"}
      [] p = "verify" -> {"EXECUTING", "SUCCESS", "FAILED"}
      [] OTHER        -> {}

(***************************************************************************)
(* C36: a run() invoked while another run() is in progress on the same     *)
(* Orchestrator leaves the in-progress run undisturbed: it does not clear  *)
(* that run's rollback stack, reset its abort flag or its audit events, or *)
(* change the state machine in a way that makes one of the first run's     *)
(* later transitions illegal.                                              *)
(***************************************************************************)
\* The lines a second run() executes while the first is suspended leave the
\* rollback stack, the abort flag and the audit as they were, and every
\* transition the first run() requests next is accepted after them if it was
\* before.
C36_FirstRunUndisturbed ==
    [][ RunWhileSuspended =>
            /\ rb_stack' = rb_stack
            /\ abort' = abort
            /\ audit' = audit
            /\ \A q \in NextRequests(pc) :
                  transition(sm, q, 0, "").ok => transition(sm', q, 0, "").ok
      ]_vars

\* The first run() failed at its second node after a second run() was called
\* during that node: the first node, reversible and SUCCESS, was not rolled
\* back, its entry having been cleared by the second call.
C36_RollbackLost ==
    /\ pc = "done"
    /\ pc2 # "idle"
    /\ mode = "live"
    /\ ~result.success
    /\ Len(nodes) = 2
    /\ nodes[1].status = "SUCCESS"
    /\ ROLLBACK_MAP(nodes[1].action) # NoRollback
    /\ nodes[2].status = "FAILED"
    /\ rb_log = <<>>
    /\ "close_window" \notin exec_called

(***************************************************************************)
(* utils/timeout.py and Orchestrator._plan: the declared timeout budgets,  *)
(* in seconds.                                                             *)
(***************************************************************************)
\* TIMEOUTS, for the actions of StepKinds and ROLLBACK_MAP; "default" for the
\* rest.
TIMEOUTS(action) ==
    CASE action = "open_app"      -> 12
      [] action = "open_terminal" -> 8
      [] action = "focus_window"  -> 5
      [] action = "close_window"  -> 5
      [] action = "run_command"   -> 30
      [] OTHER                    -> 15

\* _plan: timeout_override = 30.0
PLANNER_TIMEOUT_S == 30

(***************************************************************************)
(* C37: a run in which the planner and every step attempt return within    *)
(* their own declared timeout budgets is never aborted by the watchdog:    *)
(* heartbeats are sent often enough that the heartbeat timeout cannot      *)
(* elapse during planning, during a single step attempt, or during a       *)
(* step's retry/backoff sequence.                                          *)
(***************************************************************************)
\* While the planner is awaited, and while the executor is awaited for an
\* action whose budget for one attempt covers the time that has passed since
\* the last heartbeat, neither abort flag is set and no heartbeat timeout is
\* being delivered.
C37_NoAbortWithinBudgets ==
    /\ (pc = "plan" /\ TickS <= PLANNER_TIMEOUT_S) =>
          ~AbortFlag /\ wd.pc # "fired"
    /\ (pc = "exec" /\ TickS <= TIMEOUTS(nodes[cur].action)) =>
          ~AbortFlag /\ wd.pc # "fired"

\* The planner has been awaited for TickS seconds, less than its budget, and
\* the watchdog has fired the heartbeat timeout: both abort flags are set
\* while run() still awaits the planner.
C37_AbortedWhilePlanning ==
    /\ pc = "plan"
    /\ runs = 1
    /\ TickS <= PLANNER_TIMEOUT_S
    /\ abort
    /\ wd.abort_requested
    /\ wd.last_event = "heartbeat_timeout"
    /\ wd.age = 0
    /\ nodes = <<>>

(***************************************************************************)
(* One run() whose awaited calls all return: whenever _exec_graph or       *)
(* _exec_node can take its next step, it does.                             *)
(***************************************************************************)
\* Plans of up to MaxNodes steps of every kind.
ExecPlans == {p \in Plans : Len(p) <= MaxNodes}

\* The steps of _exec_graph and _exec_node: the loop's own steps and the
\* return of each awaited executor, recovery and verifier call.
ExecGraphSteps ==
    \/ LoopDone
    \/ NodeAbort
    \/ NodeSkip
    \/ NodeStart
    \/ \E s \in 1..MaxCalls, e \in ExecFailures : RetryOk(s, e)
    \/ \E e \in ExecFailures : RetryExhausted(e)
    \/ ResetOk
    \/ ResetFail
    \/ VerifyOk
    \/ ReverifyOk
    \/ ReverifyFail

NextTerm ==
    \/ \E m \in ExecMode : RunStart(m)
    \/ RunSteps(ExecPlans)

SpecTerm == Init /\ [][NextTerm]_vars /\ WF_vars(ExecGraphSteps)

\* run() is inside _exec_graph.
InExecGraph == pc \in {"loop", "exec", "reset", "verify"}

\* Number of PENDING nodes of ns.
Pending(ns) == Cardinality({i \in 1..Len(ns) : ns[i].status = "PENDING"})

(***************************************************************************)
(* C38: for every finite plan and every execution mode, provided each      *)
(* executor, recovery and verifier call returns, _exec_graph terminates:   *)
(* every pass of its loop either returns or moves at least one node out of *)
(* PENDING, and execute_with_retry makes only a bounded number of          *)
(* attempts.                                                               *)
(***************************************************************************)
\* _exec_graph is always left again; a step of its loop leaves _exec_graph or
\* lowers the number of PENDING nodes, which no step inside _exec_graph
\* raises; and execute_with_retry calls the executor at most MaxCalls times
\* whenever the first call to succeed comes, if any does.
C38_ExecGraphTerminates ==
    /\ InExecGraph ~> ~InExecGraph
    /\ [][ /\ (LoopDone \/ NodeAbort \/ NodeSkip \/ NodeStart) =>
                 \/ ~InExecGraph'
                 \/ Pending(nodes') < Pending(nodes)
           /\ (InExecGraph /\ InExecGraph') => Pending(nodes') <= Pending(nodes)
         ]_vars
    /\ [](pc = "exec" =>
            \A s \in 0..MaxCalls, e \in ExecFailures :
                execute_with_retry(fail_counts, nodes[cur].action,
                                   nodes[cur].method, s, e).calls <= MaxCalls)

\* SAFE_MODE, two steps: the first pass of the loop skipped the blocked
\* first node, the second ran the second node, and _exec_graph has returned
\* with no node PENDING.
C38_Witness ==
    /\ pc = "finish"
    /\ mode = "safe_mode"
    /\ Len(nodes) = 2
    /\ nodes[1].status = "SKIPPED"
    /\ nodes[2].status = "SUCCESS"
    /\ Pending(nodes) = 0
    /\ result.steps_total = 2

(***************************************************************************)
(* The StateMachine on its own, called with step numbers.                  *)
(***************************************************************************)
SMTransitionAt(new_state, step_num) ==
    /\ Len(sm.history) < MaxHist
    /\ LET t == transition(sm, new_state, step_num, "") IN
        /\ sm' = t.sm
        /\ sm_call' = CallRec("transition", new_state, t)
        /\ exc' = IF t.ok THEN "" ELSE "IllegalTransitionError"
    /\ UNCHANGED orch_vars

NextSMAt ==
    \/ \E s \in TaskState, n \in 0..MaxSteps : SMTransitionAt(s, n)
    \/ SMForceReset

SpecSMAt == Init /\ [][NextSMAt]_vars

(***************************************************************************)
(* C39: a transition(new_state) that is rejected with                      *)
(* IllegalTransitionError leaves the current state, previous state,        *)
(* current step and history unchanged, and an accepted transition appends  *)
(* exactly one history entry whose from/to are the old and new state.      *)
(***************************************************************************)
C39_RejectedLeavesAccepted ==
    [][ sm_call'.op = "transition" =>
          /\ sm_call'.raised =>
                /\ sm'.state = sm.state
                /\ sm'.prev = sm.prev
                /\ sm'.step = sm.step
                /\ sm'.history = sm.history
          /\ ~sm_call'.raised =>
                /\ Len(sm'.history) = Len(sm.history) + 1
                /\ SubSeq(sm'.history, 1, Len(sm.history)) = sm.history
                /\ sm'.history[Len(sm'.history)].from = sm.state
                /\ sm'.history[Len(sm'.history)].to = sm_call'.req
                /\ sm'.state = sm_call'.req ]_vars

\* Two transitions were accepted, the second into EXECUTING at step 2, and
\* the request that followed (SUCCESS from EXECUTING) was rejected: state,
\* previous state, step and the two history entries are those of before.
C39_Witness ==
    /\ sm_call = [op |-> "transition", req |-> "SUCCESS", raised |-> TRUE]
    /\ sm.state = "EXECUTING"
    /\ sm.prev = "PLANNED"
    /\ sm.step = 2
    /\ sm.history = << HistEntry("INIT", "PLANNED", ""),
                       HistEntry("PLANNED", "EXECUTING", "") >>

(***************************************************************************)
(* C40: after any sequence of run() calls, the state machine's history is  *)
(* a continuous chain: each entry's 'from' equals the previous entry's     *)
(* 'to' (the first entry starts from INIT) and the current state equals    *)
(* the last entry's 'to'; no state change happens without a history entry. *)
(***************************************************************************)
\* Whenever no run() is under way, the history starts from INIT, every entry
\* starts where the one before it ended, and the machine is in the state the
\* last entry leads to (INIT while the history is empty).
C40_HistoryChain ==
    (pc = "idle" \/ Finished) =>
        /\ \A k \in 1..Len(sm.history) :
              sm.history[k].from = IF k = 1 THEN "INIT"
                                   ELSE sm.history[k - 1].to
        /\ sm.state = IF sm.history = <<>> THEN "INIT"
                      ELSE sm.history[Len(sm.history)].to

\* Two run() calls whose planning failed: each time _force_reset_state() put
\* the machine back to INIT without a history entry, so the history reads
\* FAILED and then an entry from INIT, and ends at FAILED with the machine
\* in INIT.
C40_ChainBroken ==
    /\ runs = 2
    /\ pc = "done"
    /\ result.error = "Planning failed"
    /\ sm.state = "INIT"
    /\ sm.history = << HistEntry("INIT", "PLANNED", ""),
                       HistEntry("PLANNED", "FAILED", ""),
                       HistEntry("INIT", "PLANNED", ""),
                       HistEntry("PLANNED", "FAILED", "") >>

====
